---- MODULE Spec2Model ----
(***************************************************************************)
(* A model of the execution engine of the Saber toolchain: the tagged      *)
(* VarPointer, the VarBuffer allocator, the logging Memory with its        *)
(* snapshot walker (src/src/runtime.rs), the bytecode Runtime              *)
(* (src/interpreter/src/runtime.rs) with Program::new, and the NameTable.  *)
(*                                                                         *)
(* The module holds several specifications over one set of variables:      *)
(*   Spec      the logging Memory and its operations                       *)
(*   SpecWalk  the Memory (shorter histories) and the calls of its walkers *)
(*   SpecRange checked access (get_var_range) on generated buffers         *)
(*   SpecPtr   the pure VarPointer functions                               *)
(*   SpecRun   the bytecode Runtime (run_program / run_func / run_op)      *)
(*   SpecEngines  the Memory and the Runtime side by side                  *)
(*   SpecCalls, SpecPrint, SpecWords  the Runtime on the opcodes of calls, *)
(*             of printing and of word loads and stores, run longer        *)
(*   SpecProgram  whole programs built by Program::new                     *)
(*   SpecNames the NameTable of the Lexer                                  *)
(*   SpecSlice Memory::get_slice and get_var_slice                         *)
(*   SpecAlloc the Runtime on the allocating opcodes, with operands up to  *)
(*             the largest u32                                             *)
(*   SpecEscape  programs that read or write through a returned pointer    *)
(*   SpecScopes  the SymbolTable (src/src/symbol_table.rs)                 *)
(*   SpecTree  the scopes of the TreeWalker (src/src/treewalker.rs)        *)
(* A specification leaves the variables of the others at their initial     *)
(* values.                                                                 *)
(*                                                                         *)
(* Integers keep their widths on a scaled machine: a byte has ByteBits     *)
(* bits, a u32 or i32 has U32Bytes bytes and a u64 or usize WordBytes      *)
(* bytes.  Where a sum leaves its width a debug build panics and a release *)
(* build wraps, and both are followed.                                     *)
(***************************************************************************)
EXTENDS Integers, Sequences, FiniteSets, TLC

VARIABLES
    stack,            \* Memory.stack : VarBuffer
    heap,             \* Memory.heap : VarBuffer
    historical_data,  \* Memory.historical_data : Vec<u8>
    history,          \* Memory.history : Vec<MemoryAction> (the tag is not modelled)
    ret,              \* what the last Memory operation returned
    op,               \* the last Memory operation called
    nfail,            \* how many Memory operations returned Err so far
    walker,           \* the live MemorySnapshotWalker, if any
    rq,               \* SpecRange: the generated buffer, pointer, length and the result
    pt,               \* SpecPtr: the pointer under test and its images
    rt,               \* SpecRun: the Runtime and the active run_func invocations
    lexer,            \* SpecNames: the Lexer's name table and the tokens it gave
    symtab,           \* SpecScopes: the typechecker's SymbolTable and its last lookup
    tw                \* SpecTree: the TreeWalker's scopes and the expression it evaluates

vars == <<stack, heap, historical_data, history, ret, op, nfail, walker, rq, pt, rt, lexer, symtab, tw>>

\* what a call on a walker leaves alone
memvars == <<stack, heap, historical_data, history, ret, op, nfail, rq, pt, rt, lexer, symtab, tw>>

-----------------------------------------------------------------------------
(* Bounds of the model.                                                    *)

\* Bits of a byte of the scaled machine: its u32 has U32Bytes bytes of ByteBits
\* bits where the real one has 4 bytes of 8 bits.
ByteBits == 2
\* Largest byte value written (bytes are 0..MaxByte).
MaxByte == 1
\* Largest length of a variable, a byte slice or a typed value.
MaxLen == 2
\* Memory operations are enabled while |history| is below this.
MaxHistory == 3
\* Cap on |stack.data| and |historical_data| (failing calls can grow both).
MaxData == 6
\* The same cap in SpecWalk, where walkers are started on the Memory.
MaxWalkHistory == 2
\* Memory operations that fail are generated while nfail is below this.
MaxFail == 1
\* Largest variable index of a generated pointer (0 is the null pointer).
MaxPtrIdx == 2
\* SpecRange: largest number of variables in a generated buffer.
MaxVars == 2
\* SpecRun: opcodes are run while fewer than this many have been.
MaxSteps == 4
\* SpecRun: largest number of nested run_func invocations.
MaxDepth == 2
\* SpecCalls: opcodes are run while fewer than this many have been.
MaxCallSteps == 6
\* SpecPrint: opcodes are run while fewer than this many have been.
MaxPrintSteps == 6
\* SpecWords: opcodes are run while fewer than this many have been.
MaxWordSteps == 5

Bytes == 0..MaxByte

ByteSeqs(n) == [1..n -> Bytes]

Zeros(n) == [i \in 1..n |-> 0]

\* sizes of the Copy types T written by set<T>, push_stack<T>, pop_stack<T>
TypeSizes == 1..MaxLen

-----------------------------------------------------------------------------
(* Vec helpers.                                                            *)

\* Vec::resize(n, 0)
resize(v, n) ==
    IF n <= Len(v) THEN SubSeq(v, 1, n) ELSE v \o Zeros(n - Len(v))

\* &v[a..b] with 0-based, end-exclusive bounds (callers check a <= b <= |v|)
slice(v, a, b) == SubSeq(v, a + 1, b)

\* v[a..b].copy_from_slice(src) with |src| = b - a
copy_into(v, a, src) ==
    [i \in 1..Len(v) |-> IF i > a /\ i <= a + Len(src) THEN src[i - a] ELSE v[i]]

Last(v) == v[Len(v)]

Front(v) == SubSeq(v, 1, Len(v) - 1)

-----------------------------------------------------------------------------
(* VarPointer, src/src/runtime.rs 54-132.                                   *)

\* 1u32 << 31, at the model's width
\* bytes of a u32 or an i32 (the fields of a VarPointer)
U32Bytes == 4

\* bytes of a u64, an i64, a usize or a VarPointer; VarBuffer::pop moves this many
WordBytes == 8

\* bits of a u32
HalfBits == U32Bytes * ByteBits

TagBit == 2 ^ (HalfBits - 1)

\* the values of a u32 at the model's width
Half == 2 ^ HalfBits

\* 'idx & !(1u32 << 31) != idx': new_stack and new_heap panic on such an idx
idx_too_large(idx) == idx >= TagBit

\* new_stack for an idx below the tag bit: idx | (1u32 << 31)
new_stack(idx, offset) == [_idx |-> idx + TagBit, _offset |-> offset]

new_heap(idx, offset) == [_idx |-> idx, _offset |-> offset]

var_idx(ptr) == ptr._idx % TagBit

offset_of(ptr) == ptr._offset

set_offset(ptr, offset) == [ptr EXCEPT !._offset = offset]

with_offset(ptr, offset) == set_offset(ptr, offset)

is_stack(ptr) == ptr._idx \div TagBit # 0

\* the index shifted by one bit less than the width of the offset
into_u64_short_shift(ptr) == ptr._idx * TagBit + ptr._offset

\* impl Into<u64> for VarPointer
into_u64(ptr) == ptr._idx * Half + ptr._offset

\* impl From<u64> for VarPointer
from_u64(val) == [_idx |-> (val \div Half) % Half, _offset |-> val % Half]

-----------------------------------------------------------------------------
(* VarBuffer, src/src/runtime.rs 146-235.                                   *)

Var(idx, len) == [idx |-> idx, len |-> len, meta |-> 0]

upper(var) == var.idx + var.len

VarBuffer_new == [data |-> <<>>, vars |-> <<>>]

\* error!("InvalidPointer", ...)
invalid_ptr == "InvalidPointer"

\* invalid_offset builds its error with the short name "InvalidPointer" too
invalid_offset == "InvalidPointer"

RangeErr(e) == [ok |-> FALSE, err |-> e, start |-> 0, end |-> 0]

RangeOk(s, e) == [ok |-> TRUE, err |-> "", start |-> s, end |-> e]

\* the 'ptr.offset() >= var.len' test of get_var_range, get_slice, get_var_slice
offset_outside(ptr, var) == offset_of(ptr) >= var.len

\* overflow checks are on in a debug build and off in a release build
Builds == {"debug", "release"}

\* a u32 sum: exact while it fits; past the width a debug build panics and a
\* release build wraps around
u32_add(build, a, b) ==
    IF a + b < Half THEN [panic |-> FALSE, val |-> a + b]
    ELSE IF build = "debug" THEN [panic |-> TRUE, val |-> 0]
    ELSE [panic |-> FALSE, val |-> (a + b) % Half]

RangePanic == [ok |-> FALSE, err |-> "panic", start |-> 0, end |-> 0]

\* VarBuffer::get_var_range as compiled by a build
get_var_range_in(build, buf, ptr, len) ==
    IF var_idx(ptr) = 0 THEN RangeErr(invalid_ptr)
    ELSE IF var_idx(ptr) > Len(buf.vars) THEN RangeErr(invalid_ptr)
    ELSE LET var == buf.vars[var_idx(ptr)]
             sum == u32_add(build, offset_of(ptr), len)
         IN IF offset_outside(ptr, var) THEN RangeErr(invalid_offset)
            ELSE IF sum.panic THEN RangePanic
            ELSE IF sum.val > var.len THEN RangeErr(invalid_offset)
            ELSE RangeOk(var.idx + offset_of(ptr), var.idx + offset_of(ptr) + len)

\* VarBuffer::get_var_range as the Memory operations below call it: offsets
\* and lengths of a few bytes, on which the two builds agree
get_var_range(buf, ptr, len) == get_var_range_in("release", buf, ptr, len)

\* the checks of VarBuffer::set<T> (and get_var<T>): no 'offset >= len' test
set_range(buf, ptr, len) ==
    IF var_idx(ptr) = 0 THEN RangeErr(invalid_ptr)
    ELSE IF var_idx(ptr) > Len(buf.vars) THEN RangeErr(invalid_ptr)
    ELSE LET var == buf.vars[var_idx(ptr)]
         IN IF offset_of(ptr) + len > var.len THEN RangeErr(invalid_offset)
            ELSE RangeOk(var.idx + offset_of(ptr), var.idx + offset_of(ptr) + len)

\* VarBuffer::add_var: the new buffer (the index returned is |vars|)
add_var(buf, len) ==
    [data |-> resize(buf.data, Len(buf.data) + len),
     vars |-> Append(buf.vars, Var(Len(buf.data), len))]

-----------------------------------------------------------------------------
(* MAKind, src/src/runtime.rs 237-264.                                      *)

SetValue(ptr, vs, ve, oe) ==
    [kind |-> "SetValue", ptr |-> ptr, value_start |-> vs,
     value_end_overwrite_start |-> ve, overwrite_end |-> oe]

PopStack(vs, ve) == [kind |-> "PopStack", value_start |-> vs, value_end |-> ve]

PushStack(vs, ve) == [kind |-> "PushStack", value_start |-> vs, value_end |-> ve]

PopStackVar(vs, ve, se) ==
    [kind |-> "PopStackVar", var_start |-> vs, var_end_stack_start |-> ve,
     stack_end |-> se]

AllocStackVar(len) == [kind |-> "AllocStackVar", len |-> len]

AllocHeapVar(len) == [kind |-> "AllocHeapVar", len |-> len]

-----------------------------------------------------------------------------
(* Memory, src/src/runtime.rs 272-738.                                      *)

\* the pointers handed to the operations: both regions, null and out of range
\* indices, offsets up to the largest length
Ptrs ==
    {new_stack(i, o) : i \in 0..MaxPtrIdx, o \in 0..MaxLen}
        \cup {new_heap(i, o) : i \in 0..MaxPtrIdx, o \in 0..MaxLen}

\* no walker borrows the Memory, the program has not panicked, and the model's
\* bounds leave room
HistoryCap == IF walker.mode = "off" THEN MaxHistory ELSE MaxWalkHistory

MemEnabled ==
    /\ walker.mode \in {"off", "none"}
    /\ ret # "panic"
    /\ Len(history) < HistoryCap
    /\ Len(stack.data) <= MaxData
    /\ Len(historical_data) <= MaxData

\* failing calls are generated in Spec; SpecWalk walks the histories of
\* successful calls
MayFail == nfail < MaxFail /\ walker.mode = "off"

\* a push_history that keeps only the latest action of a kind in place of
\* the one before it
push_history_over_last(h, kind) ==
    IF h # <<>> /\ Last(h).kind = kind.kind THEN [h EXCEPT ![Len(h)] = kind]
    ELSE Append(h, kind)

\* Memory::push_history
push_history(h, kind) == Append(h, kind)

Returned(name, r) ==
    /\ op' = name
    /\ ret' = r
    /\ nfail' = IF r \in {"Ok", "panic"} THEN nfail ELSE nfail + 1
    /\ UNCHANGED <<walker, rq, pt, rt, lexer, symtab, tw>>

\* var.upper() of the last stack variable, 0 without one
break_idx_of(buf) == IF buf.vars = <<>> THEN 0 ELSE upper(Last(buf.vars))

\* Memory::add_stack_var
add_stack_var(len) ==
    /\ MemEnabled
    /\ stack' = add_var(stack, len)
    /\ history' = push_history(history, AllocStackVar(len))
    /\ UNCHANGED <<heap, historical_data>>
    /\ Returned("add_stack_var", "Ok")

\* Memory::add_heap_var
add_heap_var(len) ==
    /\ MemEnabled
    /\ heap' = add_var(heap, len)
    /\ history' = push_history(history, AllocHeapVar(len))
    /\ UNCHANGED <<stack, historical_data>>
    /\ Returned("add_heap_var", "Ok")

\* the body shared by Memory::set<T> (checks of VarBuffer::set) and
\* Memory::write_bytes (checks of get_var_range): the value is spilled to
\* historical_data before the check, the overwritten bytes after it
WriteAt(name, ptr, bytes, r) ==
    LET value_start == Len(historical_data)
        value_end_overwrite_start == value_start + Len(bytes)
        buf == IF is_stack(ptr) THEN stack ELSE heap
        old == slice(buf.data, r.start, r.end)
        overwrite_end == value_end_overwrite_start + Len(old)
        newbuf == [buf EXCEPT !.data = copy_into(buf.data, r.start, bytes)]
    IN IF ~r.ok
       THEN /\ MayFail
            /\ historical_data' = historical_data \o bytes
            /\ UNCHANGED <<stack, heap, history>>
            /\ Returned(name, r.err)
       ELSE /\ historical_data' = historical_data \o bytes \o old
            /\ stack' = IF is_stack(ptr) THEN newbuf ELSE stack
            /\ heap' = IF is_stack(ptr) THEN heap ELSE newbuf
            /\ history' = push_history(history,
                              SetValue(ptr, value_start, value_end_overwrite_start,
                                       overwrite_end))
            /\ Returned(name, "Ok")

\* Memory::set<T>, value given by its bytes
set(ptr, value) ==
    /\ MemEnabled
    /\ WriteAt("set", ptr, value,
               set_range(IF is_stack(ptr) THEN stack ELSE heap, ptr, Len(value)))

\* Memory::write_bytes
write_bytes(ptr, bytes) ==
    /\ MemEnabled
    /\ WriteAt("write_bytes", ptr, bytes,
               get_var_range(IF is_stack(ptr) THEN stack ELSE heap, ptr, Len(bytes)))

\* Memory::pop_stack_var
pop_stack_var ==
    /\ MemEnabled
    /\ IF stack.vars # <<>>
       THEN LET var == Last(stack.vars)
                var_start == Len(historical_data)
                var_end_stack_start == var_start + var.len
                hd == historical_data \o slice(stack.data, var.idx, Len(stack.data))
            IN /\ historical_data' = hd
               /\ stack' = [data |-> resize(stack.data, var.idx),
                            vars |-> Front(stack.vars)]
               /\ history' = push_history(history,
                                 PopStackVar(var_start, var_end_stack_start, Len(hd)))
               /\ UNCHANGED heap
               /\ Returned("pop_stack_var", "Ok")
       ELSE /\ MayFail
            /\ UNCHANGED <<stack, heap, historical_data, history>>
            /\ Returned("pop_stack_var", "StackIsEmpty")

\* Memory::push_stack<T> and Memory::push_stack_bytes (the same body)
PushBytes(name, from_bytes) ==
    LET value_start == Len(historical_data)
        value_end == value_start + Len(from_bytes)
    IN /\ historical_data' = historical_data \o from_bytes
       /\ stack' = [stack EXCEPT !.data = @ \o from_bytes]
       /\ history' = push_history(history, PushStack(value_start, value_end))
       /\ UNCHANGED heap
       /\ Returned(name, "Ok")

push_stack(value) == MemEnabled /\ PushBytes("push_stack", value)

push_stack_bytes(from_bytes) == MemEnabled /\ PushBytes("push_stack_bytes", from_bytes)

\* the two guards shared by the pops: "" when both pass
PopCheck(len) ==
    IF Len(stack.data) < len THEN "StackTooShort"
    ELSE IF stack.vars # <<>> /\ Len(stack.data) - upper(Last(stack.vars)) < len
         THEN "StackPopInvalidatesVariable"
         ELSE ""

\* Memory::pop_stack<T> and Memory::pop_bytes (the same body)
PopBytes(name, len) ==
    IF PopCheck(len) # ""
    THEN /\ MayFail
         /\ UNCHANGED <<stack, heap, historical_data, history>>
         /\ Returned(name, PopCheck(len))
    ELSE LET upper_ == Len(stack.data)
             lower == upper_ - len
             value_start == Len(historical_data)
             value_end == value_start + len
         IN /\ historical_data' = historical_data \o slice(stack.data, lower, upper_)
            /\ stack' = [stack EXCEPT !.data = resize(@, lower)]
            /\ history' = push_history(history, PopStack(value_start, value_end))
            /\ UNCHANGED heap
            /\ Returned(name, "Ok")

pop_stack(size) == MemEnabled /\ PopBytes("pop_stack", size)

pop_bytes(len) == MemEnabled /\ PopBytes("pop_bytes", len)

\* Memory::pop_stack_bytes_into
pop_stack_bytes_into(ptr, len) ==
    /\ MemEnabled
    /\ LET break_idx == break_idx_of(stack)
           tobuf == IF is_stack(ptr) THEN stack ELSE heap
           r == get_var_range(tobuf, ptr, len)
           top == Len(stack.data)
           from_bytes == slice(stack.data, top - len, top)
           to_bytes == slice(tobuf.data, r.start, r.end)
           value_start == Len(historical_data)
           value_end == value_start + Len(from_bytes)
           overwrite_end == value_end + Len(to_bytes)
           written == copy_into(tobuf.data, r.start, from_bytes)
       IN IF PopCheck(len) # ""
          THEN /\ MayFail
               /\ UNCHANGED <<stack, heap, historical_data, history>>
               /\ Returned("pop_stack_bytes_into", PopCheck(len))
          ELSE IF ~r.ok
          THEN /\ MayFail
               /\ UNCHANGED <<stack, heap, historical_data, history>>
               /\ Returned("pop_stack_bytes_into", r.err)
          ELSE IF is_stack(ptr) /\ r.end > break_idx
          THEN \* stack_vars[start..end] reaches past split_at_mut(break_idx)
               /\ UNCHANGED <<stack, heap, historical_data, history>>
               /\ Returned("pop_stack_bytes_into", "panic")
          ELSE /\ historical_data' = historical_data \o from_bytes \o to_bytes
               /\ stack' = [stack EXCEPT !.data =
                               resize(IF is_stack(ptr) THEN written ELSE @, top - len)]
               /\ heap' = IF is_stack(ptr) THEN heap ELSE [heap EXCEPT !.data = written]
               /\ history' = push_history(
                                 push_history(history,
                                     SetValue(ptr, value_start, value_end, overwrite_end)),
                                 PopStack(value_start, value_end))
               /\ Returned("pop_stack_bytes_into", "Ok")

\* Memory::push_stack_bytes_from: the stack grows by len before the pointer is
\* checked, and the '?' of the check returns without shrinking it again
push_stack_bytes_from(ptr, len) ==
    /\ MemEnabled
    /\ LET break_idx == break_idx_of(stack)
           grown == [stack EXCEPT !.data = resize(@, Len(@) + len)]
           r == get_var_range(IF is_stack(ptr) THEN grown ELSE heap, ptr, len)
           from_bytes == IF is_stack(ptr) THEN slice(grown.data, r.start, r.end)
                         ELSE slice(heap.data, r.start, r.end)
           pop_lower == Len(grown.data) - len
           value_start == Len(historical_data)
           value_end == value_start + Len(from_bytes)
       IN IF ~r.ok
          THEN /\ MayFail
               /\ stack' = grown
               /\ UNCHANGED <<heap, historical_data, history>>
               /\ Returned("push_stack_bytes_from", r.err)
          ELSE IF is_stack(ptr) /\ r.end > break_idx
          THEN /\ stack' = grown
               /\ UNCHANGED <<heap, historical_data, history>>
               /\ Returned("push_stack_bytes_from", "panic")
          ELSE /\ historical_data' = historical_data \o from_bytes
               /\ stack' = [grown EXCEPT !.data = copy_into(@, pop_lower, from_bytes)]
               /\ history' = push_history(history, PushStack(value_start, value_end))
               /\ UNCHANGED heap
               /\ Returned("push_stack_bytes_from", "Ok")

\* the loop of pop_keep_bytes over mutate_slice = data[pop_start..]:
\* 'mutate_slice[i] = mutate_slice[i + pop]' for i in 0..mutate_slice.len();
\* the first index i with i + pop outside the slice panics
KeepLoopPanicAt(mlen, pop) ==
    LET bad == {i \in 0..(mlen - 1) : i + pop >= mlen}
    IN IF bad = {} THEN mlen ELSE CHOOSE i \in bad : \A j \in bad : i <= j

\* the data after the iterations 0..upto-1 of that loop
KeepLoopData(data, pop_start, pop, upto) ==
    [k \in 1..Len(data) |->
        IF k > pop_start /\ k <= pop_start + upto THEN data[k + pop] ELSE data[k]]

\* Memory::pop_keep_bytes
pop_keep_bytes(keep, pop) ==
    /\ MemEnabled
    /\ LET len == keep + pop
           top == Len(stack.data)
           keep_start == top - keep
           pop_start == keep_start - pop
           pop_value_start == Len(historical_data)
           pop_value_end == pop_value_start + (top - pop_start)
           push_value_end == pop_value_end + (top - keep_start)
           mlen == top - pop_start
           stop == KeepLoopPanicAt(mlen, pop)
           moved == KeepLoopData(stack.data, pop_start, pop, stop)
       IN IF PopCheck(len) # ""
          THEN /\ MayFail
               /\ UNCHANGED <<stack, heap, historical_data, history>>
               /\ Returned("pop_keep_bytes", PopCheck(len))
          ELSE /\ historical_data' = historical_data
                                        \o slice(stack.data, pop_start, top)
                                        \o slice(stack.data, keep_start, top)
               /\ UNCHANGED heap
               /\ IF stop < mlen
                  THEN /\ stack' = [stack EXCEPT !.data = moved]
                       /\ UNCHANGED history
                       /\ Returned("pop_keep_bytes", "panic")
                  ELSE /\ stack' = [stack EXCEPT !.data = resize(moved, pop_start + keep)]
                       /\ history' = push_history(
                                         push_history(history,
                                             PopStack(pop_value_start, pop_value_end)),
                                         PushStack(pop_value_end, push_value_end))
                       /\ Returned("pop_keep_bytes", "Ok")

-----------------------------------------------------------------------------
(* MockMemory and MemorySnapshotWalker, src/src/runtime.rs 740-935.         *)

MockMemory_new == [stack |-> VarBuffer_new, heap |-> VarBuffer_new]

MockMemory_new_from(s, h) == [stack |-> s, heap |-> h]

\* MockMemory::var_buffer
var_buffer(m, ptr) == IF is_stack(ptr) THEN m.stack ELSE m.heap

with_buffer(m, ptr, buf) ==
    IF is_stack(ptr) THEN [m EXCEPT !.stack = buf] ELSE [m EXCEPT !.heap = buf]

Stepped(m) == [panic |-> FALSE, memory |-> m]

Panicked(m) == [panic |-> TRUE, memory |-> m]

\* writes bytes at ptr: the SetValue arm of next (value bytes) and prev
\* (overwritten bytes); expect() panics when the range check fails
replay_write(m, ptr, bytes) ==
    LET buffer == var_buffer(m, ptr)
        r == get_var_range(buffer, ptr, Len(bytes))
    IN IF ~r.ok \/ r.end > Len(buffer.data) THEN Panicked(m)
       ELSE Stepped(with_buffer(m, ptr,
                [buffer EXCEPT !.data = copy_into(@, r.start, bytes)]))

\* data.resize(data.len() - popped_len, 0): the subtraction overflows (a panic,
\* or a capacity overflow once wrapped) when popped_len > data.len()
replay_truncate(m, popped_len) ==
    IF popped_len > Len(m.stack.data) THEN Panicked(m)
    ELSE Stepped([m EXCEPT !.stack.data = resize(@, Len(@) - popped_len)])

replay_extend(m, bytes) == Stepped([m EXCEPT !.stack.data = @ \o bytes])

\* vars.pop().unwrap(), then data.resize(var.idx, 0)
replay_pop_var(m, heapside) ==
    LET buf == IF heapside THEN m.heap ELSE m.stack
        var == Last(buf.vars)
        popped == [data |-> resize(buf.data, var.idx), vars |-> Front(buf.vars)]
    IN IF buf.vars = <<>> THEN Panicked(m)
       ELSE Stepped(IF heapside THEN [m EXCEPT !.heap = popped]
                    ELSE [m EXCEPT !.stack = popped])

\* the match of MemorySnapshotWalker::next: the forward effect of one action
apply_next(m, a) ==
    CASE a.kind = "SetValue" ->
            replay_write(m, a.ptr,
                slice(historical_data, a.value_start, a.value_end_overwrite_start))
      [] a.kind = "PopStack" -> replay_truncate(m, a.value_end - a.value_start)
      [] a.kind = "PushStack" ->
            replay_extend(m, slice(historical_data, a.value_start, a.value_end))
      [] a.kind = "PopStackVar" -> replay_pop_var(m, FALSE)
      [] a.kind = "AllocHeapVar" -> Stepped([m EXCEPT !.heap = add_var(@, a.len)])
      [] a.kind = "AllocStackVar" -> Stepped([m EXCEPT !.stack = add_var(@, a.len)])

\* replay_unpop_var taking the length of the trailing stack bytes for the
\* length of the variable
replay_unpop_var_trailing_len(m, a) ==
    LET idx == Len(m.stack.data)
        len == a.stack_end - a.var_end_stack_start
    IN Stepped([m EXCEPT
           !.stack.data = @ \o slice(historical_data, a.var_start, a.stack_end),
           !.stack.vars = Append(@, Var(idx, len))])

\* the PopStackVar arm of prev: re-append the bytes, re-push the record
replay_unpop_var(m, a) ==
    LET idx == Len(m.stack.data)
        len == a.var_end_stack_start - a.var_start
    IN Stepped([m EXCEPT
           !.stack.data = @ \o slice(historical_data, a.var_start, a.stack_end),
           !.stack.vars = Append(@, Var(idx, len))])

\* the match of MemorySnapshotWalker::prev: the undo of one action
apply_prev(m, a) ==
    CASE a.kind = "SetValue" ->
            replay_write(m, a.ptr,
                slice(historical_data, a.value_end_overwrite_start, a.overwrite_end))
      [] a.kind = "PopStack" ->
            replay_extend(m, slice(historical_data, a.value_start, a.value_end))
      [] a.kind = "PushStack" -> replay_truncate(m, a.value_end - a.value_start)
      [] a.kind = "PopStackVar" -> replay_unpop_var(m, a)
      [] a.kind = "AllocHeapVar" -> replay_pop_var(m, TRUE)
      [] a.kind = "AllocStackVar" -> replay_pop_var(m, FALSE)

\* mode, nNext and nPrev are bookkeeping of the model: which constructor made
\* the walker and how often next() and prev() were called on it.  Mode "off"
\* is a Memory no walker is made of.
NoWalker ==
    [mode |-> "none", memory |-> MockMemory_new, index |-> 0, out |-> "start",
     nNext |-> 0, nPrev |-> 0]

\* Memory::forwards_walker
forwards_walker ==
    [NoWalker EXCEPT !.mode = "fwd"]

\* Memory::backwards_walker
backwards_walker ==
    [NoWalker EXCEPT !.mode = "bwd", !.memory = MockMemory_new_from(stack, heap),
                     !.index = Len(history) + 1]

\* MemorySnapshotWalker::next; history[self.index - 1] is history[w.index] here
next(w) ==
    IF w.index > Len(history) THEN [w EXCEPT !.out = "None"]
    ELSE LET e == IF w.index > 0 THEN apply_next(w.memory, history[w.index])
                  ELSE Stepped(w.memory)
         IN IF e.panic THEN [w EXCEPT !.out = "panic"]
            ELSE [w EXCEPT !.memory = e.memory, !.index = @ + 1, !.out = "Some"]

\* prev with 'self.index < self.history.len()': the last action is never undone
prev_skips_last(w) ==
    IF w.index = 0 THEN [w EXCEPT !.out = "None"]
    ELSE LET e == IF w.index < Len(history) THEN apply_prev(w.memory, history[w.index])
                  ELSE Stepped(w.memory)
         IN IF e.panic THEN [w EXCEPT !.out = "panic"]
            ELSE [w EXCEPT !.memory = e.memory, !.index = @ - 1, !.out = "Some"]

\* MemorySnapshotWalker::prev
prev(w) ==
    IF w.index = 0 THEN [w EXCEPT !.out = "None"]
    ELSE LET e == IF w.index <= Len(history) THEN apply_prev(w.memory, history[w.index])
                  ELSE Stepped(w.memory)
         IN IF e.panic THEN [w EXCEPT !.out = "panic"]
            ELSE [w EXCEPT !.memory = e.memory, !.index = @ - 1, !.out = "Some"]

-----------------------------------------------------------------------------
(* The walker's calls.  A walker borrows the Memory, so no Memory operation  *)
(* runs while one is alive.  The walks generated are some calls of next()    *)
(* followed by some calls of prev(); a call that returns None changes       *)
(* nothing, so each way stops after its first None.                         *)

StartForwards ==
    /\ walker.mode = "none" /\ ret # "panic"
    /\ walker' = forwards_walker
    /\ UNCHANGED memvars

StartBackwards ==
    /\ walker.mode = "none" /\ ret # "panic"
    /\ walker' = backwards_walker
    /\ UNCHANGED memvars

WalkerNext ==
    /\ walker.mode \in {"fwd", "bwd"} /\ walker.out # "panic"
    /\ walker.nPrev = 0 /\ walker.out # "None"
    /\ walker' = [next(walker) EXCEPT !.nNext = @ + 1]
    /\ UNCHANGED memvars

WalkerPrev ==
    /\ walker.mode \in {"fwd", "bwd"} /\ walker.out # "panic"
    /\ walker.nPrev = 0 \/ walker.out # "None"
    /\ walker' = [prev(walker) EXCEPT !.nPrev = @ + 1]
    /\ UNCHANGED memvars

\* the walker goes out of scope
DropWalker ==
    /\ walker.mode \in {"fwd", "bwd"}
    /\ walker' = NoWalker
    /\ UNCHANGED memvars

-----------------------------------------------------------------------------
(* Spec: the Memory.  SpecWalk: the Memory and its walkers.                 *)

RqIdle == [phase |-> "idle"]

PtIdle == [phase |-> "idle"]

RtIdle == [phase |-> "idle"]

NoLexer == [phase |-> "idle"]

NoSymbolTable == [phase |-> "idle"]

NoTreeWalker == [phase |-> "idle"]

MemInit ==
    /\ stack = VarBuffer_new
    /\ heap = VarBuffer_new
    /\ historical_data = <<>>
    /\ history = <<>>
    /\ ret = "none"
    /\ op = "new"
    /\ nfail = 0

Init ==
    /\ MemInit
    /\ walker = [NoWalker EXCEPT !.mode = "off"]
    /\ rq = RqIdle /\ pt = PtIdle /\ rt = RtIdle
    /\ lexer = NoLexer /\ symtab = NoSymbolTable /\ tw = NoTreeWalker

InitWalk == MemInit /\ walker = NoWalker /\ rq = RqIdle /\ pt = PtIdle /\ rt = RtIdle
            /\ lexer = NoLexer /\ symtab = NoSymbolTable /\ tw = NoTreeWalker

MemOp ==
    \/ \E len \in 0..MaxLen : add_stack_var(len)
    \/ \E len \in 0..MaxLen : add_heap_var(len)
    \/ \E ptr \in Ptrs, n \in TypeSizes : \E value \in ByteSeqs(n) : set(ptr, value)
    \/ \E ptr \in Ptrs, n \in 0..MaxLen : \E bytes \in ByteSeqs(n) : write_bytes(ptr, bytes)
    \/ pop_stack_var
    \/ \E n \in TypeSizes : \E value \in ByteSeqs(n) : push_stack(value)
    \/ \E n \in 0..MaxLen : \E bytes \in ByteSeqs(n) : push_stack_bytes(bytes)
    \/ \E n \in TypeSizes : pop_stack(n)
    \/ \E len \in 0..MaxLen : pop_bytes(len)
    \/ \E ptr \in Ptrs, len \in 0..MaxLen : pop_stack_bytes_into(ptr, len)
    \/ \E ptr \in Ptrs, len \in 0..MaxLen : push_stack_bytes_from(ptr, len)
    \/ \E keep \in 0..MaxLen, pop \in 0..MaxLen : pop_keep_bytes(keep, pop)

Next == MemOp

Spec == Init /\ [][Next]_vars

WalkOp == StartForwards \/ StartBackwards \/ WalkerNext \/ WalkerPrev \/ DropWalker

NextWalk == MemOp \/ WalkOp

SpecWalk == InitWalk /\ [][NextWalk]_vars

-----------------------------------------------------------------------------
(* Walks computed from the Memory of the current state.                     *)

Live == MockMemory_new_from(stack, heap)

\* every call so far returned Ok: the history is one of successful operations
AllOk == nfail = 0 /\ ret # "panic"

\* n calls of next() on w; a panic ends the walk
RECURSIVE walk_next(_, _)
walk_next(w, n) ==
    IF n = 0 \/ w.out = "panic" THEN w ELSE walk_next(next(w), n - 1)

\* n calls of prev() on w
RECURSIVE walk_prev(_, _)
walk_prev(w, n) ==
    IF n = 0 \/ w.out = "panic" THEN w ELSE walk_prev(prev(w), n - 1)

\* the snapshots next() returns until it returns None ("panic" if it panics)
RECURSIVE snapshots_next(_)
snapshots_next(w) ==
    LET w2 == next(w)
    IN CASE w2.out = "None" -> <<>>
         [] w2.out = "panic" -> <<"panic">>
         [] OTHER -> <<w2.memory>> \o snapshots_next(w2)

\* the snapshots prev() returns until it returns None
RECURSIVE snapshots_prev(_)
snapshots_prev(w) ==
    LET w2 == prev(w)
    IN CASE w2.out = "None" -> <<>>
         [] w2.out = "panic" -> <<"panic">>
         [] OTHER -> <<w2.memory>> \o snapshots_prev(w2)

Reverse(q) == [i \in 1..Len(q) |-> q[Len(q) + 1 - i]]

\* the forward effect of history[1..k] on an empty memory
RECURSIVE forward_effect(_)
forward_effect(k) ==
    IF k = 0 THEN Stepped(MockMemory_new)
    ELSE LET e == forward_effect(k - 1)
         IN IF e.panic THEN e ELSE apply_next(e.memory, history[k])

\* the undo of history[k], history[k-1], ..., history[1] on e
RECURSIVE backward_effect(_, _)
backward_effect(e, k) ==
    IF k = 0 \/ e.panic THEN e
    ELSE backward_effect(apply_prev(e.memory, history[k]), k - 1)

Kinds == {history[i].kind : i \in 1..Len(history)}

-----------------------------------------------------------------------------
(* The claims.                                                              *)

\* C1: after any sequence of Memory operations, failed calls included, the
\* forwards walker run to its last snapshot (|history| + 1 calls of next)
\* yields the stack and heap of the live Memory.
C1_ReplayEqualsLive ==
    ret # "panic" =>
        LET w == walk_next(forwards_walker, Len(history) + 1)
        IN w.out = "Some" /\ w.memory = Live

\* C2: on a backwards walker, |history| calls of prev() yield the empty
\* memory the forwards walker starts from.
C2_BackwardsReachesEmpty ==
    (walker.mode = "bwd" /\ walker.nNext = 0 /\ walker.nPrev = Len(history))
        => (walker.out # "panic" /\ walker.memory = MockMemory_new)

\* C3: for 0 <= i <= |history|, i calls of next() on a forwards walker and
\* then i calls of prev() yield the empty snapshot, and none of them panics.
C3_NextThenPrev ==
    (walker.mode = "fwd" /\ walker.nNext <= Len(history)
                         /\ walker.nPrev <= walker.nNext)
        => /\ walker.out # "panic"
           /\ walker.nPrev = walker.nNext => walker.memory = MockMemory_new

IsErr(r) == r \notin {"none", "Ok", "panic"}

\* C6: an operation that returns an error leaves stack, heap and history as
\* they were, and one that returns Ok has appended to the history.
C6_Atomic ==
    [][/\ IsErr(ret') => (stack' = stack /\ heap' = heap /\ history' = history)
       /\ ret' = "Ok" => Len(history') > Len(history)]_vars

\* the unframed bytes of the stack: those above the topmost variable's upper
\* bound (all of data without a variable)
unframed(buf) == Len(buf.data) - break_idx_of(buf)

\* C11: a pop_stack of an n-byte type fails with StackTooShort whenever fewer
\* than n unframed bytes lie above the topmost stack variable, popping
\* nothing, and otherwise succeeds and removes exactly the top n bytes.
C11_TypedPopKinds ==
    [][\A n \in TypeSizes : pop_stack(n) =>
          /\ unframed(stack) < n => (ret' = "StackTooShort" /\ stack' = stack)
          /\ unframed(stack) >= n =>
                (ret' = "Ok" /\ stack' = [stack EXCEPT !.data = resize(@, Len(@) - n)])]_vars

-----------------------------------------------------------------------------
(* The interpreter's VarPointer and VarBuffer,                              *)
(* src/interpreter/src/runtime.rs 34-305.  Its pointer has a u32 idx with   *)
(* the stack tag and an i32 offset; usize is two halves wide.               *)

\* the values of a usize
USize == 2 ^ (WordBytes * ByteBits)

\* 'x as i32' of a u32
as_i32(x) == IF x >= TagBit THEN x - Half ELSE x

\* 'x as u32' of an i32
as_u32(x) == x % Half

\* 'x as usize' of an i32 (sign-extended)
as_usize(x) == x % USize

\* an i32 sum in a build
i32_add(build, a, b) ==
    IF -TagBit <= a + b /\ a + b < TagBit THEN [panic |-> FALSE, val |-> a + b]
    ELSE IF build = "debug" THEN [panic |-> TRUE, val |-> 0]
    ELSE [panic |-> FALSE, val |-> as_i32((a + b) % Half)]

\* a usize sum in a build
usize_add(build, a, b) ==
    IF a + b < USize THEN [panic |-> FALSE, val |-> a + b]
    ELSE IF build = "debug" THEN [panic |-> TRUE, val |-> 0]
    ELSE [panic |-> FALSE, val |-> (a + b) % USize]

interp_Var(idx, len) == [idx |-> idx, len |-> len]

interp_new_stack(idx, offset) == [idx |-> idx + TagBit, offset |-> offset]

interp_new_heap(idx, offset) == [idx |-> idx, offset |-> offset]

interp_var_idx(ptr) == ptr.idx % TagBit

interp_is_stack(ptr) == ptr.idx \div TagBit # 0

\* &data[begin..end]: panics when the range is reversed or ends past the data
interp_slice(data, begin, end) ==
    IF begin > end \/ end > Len(data) THEN RangePanic ELSE RangeOk(begin, end)

\* the lookup and the bounds test shared by get_var_range_mut and get_var_range
interp_range_check(build, buf, ptr, len) ==
    IF interp_var_idx(ptr) = 0 THEN RangeErr("NullPointer")
    ELSE IF interp_var_idx(ptr) > Len(buf.vars) THEN RangeErr("IncorrectVarOffset")
    ELSE LET var == buf.vars[interp_var_idx(ptr)]
             upper_ == i32_add(build, ptr.offset, as_i32(len))
         IN IF upper_.panic THEN RangePanic
            ELSE IF upper_.val > as_i32(var.len) \/ ptr.offset < 0
                 THEN RangeErr("OutOfValueBounds")
            ELSE RangeOk(var.idx, upper_.val)

\* VarBuffer::get_var_range_mut: &mut data[begin..begin + len]
interp_get_var_range_mut(build, buf, ptr, len) ==
    LET chk == interp_range_check(build, buf, ptr, len)
    IN IF ~chk.ok THEN chk
       ELSE LET begin == u32_add(build, chk.start, as_u32(ptr.offset))
                end == u32_add(build, begin.val, len)
            IN IF begin.panic \/ end.panic THEN RangePanic
               ELSE interp_slice(buf.data, begin.val, end.val)

\* VarBuffer::get_var_range: &data[begin..begin + upper], upper = offset + len
interp_get_var_range(build, buf, ptr, len) ==
    LET chk == interp_range_check(build, buf, ptr, len)
    IN IF ~chk.ok THEN chk
       ELSE LET begin == u32_add(build, chk.start, as_u32(ptr.offset))
                end == usize_add(build, begin.val, as_usize(chk.end))
            IN IF begin.panic \/ end.panic THEN RangePanic
               ELSE interp_slice(buf.data, begin.val, end.val)

\* VarBuffer::add_var_dyn as a build compiles it: idx is data.len() as u32 and
\* idx + len a u32 sum, which panics in a debug build and wraps in a release
\* build; buf is the new buffer (the index returned is |vars|)
add_var_dyn(build, buf, len) ==
    LET idx == as_u32(Len(buf.data))
        sum == u32_add(build, idx, len)
    IN [panic |-> sum.panic,
        buf |-> [data |-> resize(buf.data, sum.val),
                 vars |-> Append(buf.vars, interp_Var(idx, len))]]

\* VarBuffer::upper_bound
upper_bound(buf) == Len(buf.vars) + 1

-----------------------------------------------------------------------------
(* SpecRange: checked access.  A buffer is built with add_var (and, beside   *)
(* it, the interpreter's with add_var_dyn), then one range is asked of it.   *)

\* lengths asked for: around the variables' lengths, and the largest u32
RangeLens == 0..(MaxLen + 1) \cup {Half - 1}

RangeIdxs == 0..(MaxVars + 1)

RangePtrs ==
    {new_stack(i, o) : i \in RangeIdxs, o \in RangeLens}
        \cup {new_heap(i, o) : i \in RangeIdxs, o \in RangeLens}

InterpRangePtrs ==
    {interp_new_stack(i, o) : i \in RangeIdxs, o \in -1..(MaxLen + 1)}
        \cup {interp_new_heap(i, o) : i \in RangeIdxs, o \in -1..(MaxLen + 1)}

RangeStart ==
    [phase |-> "build", buf |-> VarBuffer_new, ibuf |-> VarBuffer_new,
     fn |-> "none", build |-> "debug", idx |-> 0, offset |-> 0, len |-> 0,
     res |-> RangeErr("")]

RangeAsked(fn, build, idx, offset, len, res) ==
    /\ rq' = [rq EXCEPT !.phase = "done", !.fn = fn, !.build = build, !.idx = idx,
                        !.offset = offset, !.len = len, !.res = res]
    /\ UNCHANGED <<stack, heap, historical_data, history, ret, op, nfail, walker, pt, rt, lexer, symtab, tw>>

\* buf.add_var(len) and, on the interpreter's buffer, add_var_dyn(len); the
\* buffers built stay far below the width of a u32, where the builds agree
RangeAddVar(len) ==
    /\ rq.phase = "build"
    /\ Len(rq.buf.vars) < MaxVars
    /\ rq' = [rq EXCEPT !.buf = add_var(@, len), !.ibuf = add_var_dyn("release", @, len).buf]
    /\ UNCHANGED <<stack, heap, historical_data, history, ret, op, nfail, walker, pt, rt, lexer, symtab, tw>>

\* buf.get_var_range(ptr, len)
RangeGetVarRange(build, ptr, len) ==
    /\ rq.phase = "build"
    /\ RangeAsked("get_var_range", build, var_idx(ptr), offset_of(ptr), len,
                  get_var_range_in(build, rq.buf, ptr, len))

\* the interpreter's buf.get_var_range_mut(ptr, len)
InterpGetVarRangeMut(build, ptr, len) ==
    /\ rq.phase = "build"
    /\ RangeAsked("interp get_var_range_mut", build, interp_var_idx(ptr), ptr.offset, len,
                  interp_get_var_range_mut(build, rq.ibuf, ptr, len))

\* the interpreter's buf.get_var_range(ptr, len)
InterpGetVarRange(build, ptr, len) ==
    /\ rq.phase = "build"
    /\ RangeAsked("interp get_var_range", build, interp_var_idx(ptr), ptr.offset, len,
                  interp_get_var_range(build, rq.ibuf, ptr, len))

InitRange ==
    /\ MemInit
    /\ walker = [NoWalker EXCEPT !.mode = "off"]
    /\ rq = RangeStart /\ pt = PtIdle /\ rt = RtIdle
    /\ lexer = NoLexer /\ symtab = NoSymbolTable /\ tw = NoTreeWalker

NextRange ==
    \/ \E len \in 0..MaxLen : RangeAddVar(len)
    \/ \E build \in Builds, ptr \in RangePtrs, len \in RangeLens :
           RangeGetVarRange(build, ptr, len)
    \/ \E build \in Builds, ptr \in InterpRangePtrs, len \in RangeLens :
           InterpGetVarRangeMut(build, ptr, len)
    \/ \E build \in Builds, ptr \in InterpRangePtrs, len \in RangeLens :
           InterpGetVarRange(build, ptr, len)

SpecRange == InitRange /\ [][NextRange]_vars

\* the variable a range was asked of, when its index names one
RangeIdxValid == rq.idx \in 1..Len(rq.buf.vars)

RangeVar == rq.buf.vars[rq.idx]

\* C7: get_var_range (and the interpreter's get_var_range_mut) returns Ok iff
\* the pointer's variable index is in [1, |vars|] and offset + len is at most
\* the variable's length, lengths of 0 and an offset equal to the variable's
\* length included; the range returned is (var.idx + offset, var.idx + offset + len).
C7_RangeOkIff ==
    (rq.phase = "done" /\ rq.fn \in {"get_var_range", "interp get_var_range_mut"}) =>
        /\ rq.res.ok <=> (RangeIdxValid /\ rq.offset + rq.len <= RangeVar.len)
        /\ rq.res.ok =>
              /\ rq.res.start = RangeVar.idx + rq.offset
              /\ rq.res.end = RangeVar.idx + rq.offset + rq.len

\* C8: a checked access with a null or out-of-range variable index fails with
\* the kind InvalidPointer, one with a valid index whose offset + length is
\* outside the variable fails with the kind InvalidOffset.
C8_ErrorKinds ==
    (rq.phase = "done" /\ ~rq.res.ok /\ rq.res.err # "panic") =>
        /\ ~RangeIdxValid => rq.res.err = "InvalidPointer"
        /\ (RangeIdxValid /\ rq.offset + rq.len > RangeVar.len) =>
               rq.res.err = "InvalidOffset"

-----------------------------------------------------------------------------
(* SpecPtr: a VarPointer is made by new_stack or new_heap, its offset is    *)
(* changed, and it is carried through a u64 and back.                       *)

PtrStart ==
    [phase |-> "start", fn |-> "none", is_stack |-> FALSE, idx |-> 0, offset |-> 0,
     ptr |-> new_heap(0, 0), word |-> 0, back |-> new_heap(0, 0)]

PtrUnchanged ==
    UNCHANGED <<stack, heap, historical_data, history, ret, op, nfail, walker, rq, rt, lexer, symtab, tw>>

\* VarPointer::new_stack(idx, offset)
PtrNewStack(idx, offset) ==
    /\ pt.phase = "start"
    /\ pt' = IF idx_too_large(idx) THEN [pt EXCEPT !.phase = "panic", !.fn = "new_stack"]
             ELSE [pt EXCEPT !.phase = "made", !.fn = "new_stack", !.is_stack = TRUE,
                             !.idx = idx, !.offset = offset,
                             !.ptr = new_stack(idx, offset)]
    /\ PtrUnchanged

\* VarPointer::new_heap(idx, offset)
PtrNewHeap(idx, offset) ==
    /\ pt.phase = "start"
    /\ pt' = IF idx_too_large(idx) THEN [pt EXCEPT !.phase = "panic", !.fn = "new_heap"]
             ELSE [pt EXCEPT !.phase = "made", !.fn = "new_heap", !.is_stack = FALSE,
                             !.idx = idx, !.offset = offset,
                             !.ptr = new_heap(idx, offset)]
    /\ PtrUnchanged

\* ptr = ptr.with_offset(offset)
PtrWithOffset(offset) ==
    /\ pt.phase = "made"
    /\ pt' = [pt EXCEPT !.fn = "with_offset", !.offset = offset,
                        !.ptr = with_offset(@, offset)]
    /\ PtrUnchanged

\* ptr.set_offset(offset)
PtrSetOffset(offset) ==
    /\ pt.phase = "made"
    /\ pt' = [pt EXCEPT !.fn = "set_offset", !.offset = offset,
                        !.ptr = set_offset(@, offset)]
    /\ PtrUnchanged

\* let word: u64 = ptr.into()
PtrIntoU64 ==
    /\ pt.phase = "made"
    /\ pt' = [pt EXCEPT !.phase = "word", !.word = into_u64(pt.ptr)]
    /\ PtrUnchanged

\* let back: VarPointer = word.into()
PtrFromU64 ==
    /\ pt.phase = "word"
    /\ pt' = [pt EXCEPT !.phase = "back", !.back = from_u64(pt.word)]
    /\ PtrUnchanged

InitPtr ==
    /\ MemInit
    /\ walker = [NoWalker EXCEPT !.mode = "off"]
    /\ rq = RqIdle /\ pt = PtrStart /\ rt = RtIdle
    /\ lexer = NoLexer /\ symtab = NoSymbolTable /\ tw = NoTreeWalker

\* offsets given to with_offset and set_offset: the ends and the middle of a u32
NewOffsets == {0, 1, TagBit - 1, TagBit, Half - 1}

\* every u32 is given to new_stack and new_heap as idx (and as offset) while
\* no pointer has been made
NewIdxs == IF pt.phase = "start" THEN 0..(Half - 1) ELSE {}

NextPtr ==
    \/ \E idx \in NewIdxs, offset \in 0..(Half - 1) : PtrNewStack(idx, offset)
    \/ \E idx \in NewIdxs, offset \in 0..(Half - 1) : PtrNewHeap(idx, offset)
    \/ \E offset \in NewOffsets : PtrWithOffset(offset)
    \/ \E offset \in NewOffsets : PtrSetOffset(offset)
    \/ PtrIntoU64
    \/ PtrFromU64

SpecPtr == InitPtr /\ [][NextPtr]_vars

\* C9: a pointer made by new_stack or new_heap from an idx below the tag bit
\* keeps its region tag and variable index when with_offset or set_offset
\* changes its offset, and comes back from a u64 equal to itself, with the
\* same is_stack(), var_idx() and offset().
C9_PointerRoundTrip ==
    /\ pt.phase \in {"made", "word", "back"} =>
          /\ is_stack(pt.ptr) = pt.is_stack
          /\ var_idx(pt.ptr) = pt.idx
          /\ offset_of(pt.ptr) = pt.offset
    /\ pt.phase = "back" =>
          /\ pt.back = pt.ptr
          /\ is_stack(pt.back) = pt.is_stack
          /\ var_idx(pt.back) = pt.idx
          /\ offset_of(pt.back) = pt.offset

\* a stack pointer with the largest idx came back from its u64 after its
\* offset was set to the largest offset
C9_Witness ==
    /\ pt.phase = "back"
    /\ pt.fn \in {"with_offset", "set_offset"}
    /\ pt.is_stack
    /\ pt.idx = TagBit - 1
    /\ pt.offset = Half - 1

-----------------------------------------------------------------------------
(* Values on the interpreter's stack: any_as_u8_slice of an integer or of   *)
(* a VarPointer, little-endian, fields in declaration order.                *)

ByteVals == 2 ^ ByteBits

RECURSIVE le_bytes(_, _)
\* the n bytes of the unsigned x
le_bytes(x, n) ==
    IF n = 0 THEN <<>> ELSE <<x % ByteVals>> \o le_bytes(x \div ByteVals, n - 1)

RECURSIVE le_value(_)
\* the unsigned value of bytes
le_value(b) == IF b = <<>> THEN 0 ELSE b[1] + ByteVals * le_value(Tail(b))

\* 'x as i64' of a u64
as_i64(x) == IF 2 * x >= USize THEN x - USize ELSE x

ptr_bytes(ptr) == le_bytes(ptr.idx, U32Bytes) \o le_bytes(as_u32(ptr.offset), U32Bytes)

bytes_ptr(b) ==
    [idx |-> le_value(SubSeq(b, 1, U32Bytes)),
     offset |-> as_i32(le_value(SubSeq(b, U32Bytes + 1, WordBytes)))]

\* results of the interpreter's VarBuffer operations
BufOk(buf, bytes) == [status |-> "ok", err |-> "", buf |-> buf, bytes |-> bytes]

BufErr(e, buf) == [status |-> "err", err |-> e, buf |-> buf, bytes |-> <<>>]

BufPanic(buf) == [status |-> "panic", err |-> "", buf |-> buf, bytes |-> <<>>]

BufOf(r, buf) == IF r.err = "panic" THEN BufPanic(buf) ELSE BufErr(r.err, buf)

\* VarBuffer::push
interp_push(buf, bytes) == [buf EXCEPT !.data = @ \o bytes]

\* VarBuffer::pop::<T>, n = size_of::<T>(): the checks and the slice moved are
\* WordBytes long whatever T is, and copy_from_slice panics on another length
interp_pop(buf, n) ==
    IF Len(buf.data) < WordBytes THEN BufErr("StackIsEmpty", buf)
    ELSE IF /\ buf.vars # <<>>
            /\ Len(buf.data) - (Last(buf.vars).idx + Last(buf.vars).len) < WordBytes
         THEN BufErr("StackPopInvalidatesVariable", buf)
    ELSE IF n # WordBytes THEN BufPanic(buf)
    ELSE BufOk([buf EXCEPT !.data = resize(@, Len(@) - WordBytes)],
               slice(buf.data, Len(buf.data) - WordBytes, Len(buf.data)))

\* VarBuffer::get_var::<T>, n = size_of::<T>(): copy_from_slice panics when the
\* slice get_var_range returned is not n long
interp_get_var(build, buf, ptr, n) ==
    LET r == interp_get_var_range(build, buf, ptr, n)
    IN IF ~r.ok THEN BufOf(r, buf)
       ELSE IF r.end - r.start # n THEN BufPanic(buf)
       ELSE BufOk(buf, slice(buf.data, r.start, r.end))

\* VarBuffer::set::<T>, the value given by its bytes
interp_set(build, buf, ptr, bytes) ==
    LET r == interp_get_var_range_mut(build, buf, ptr, Len(bytes))
    IN IF ~r.ok THEN BufOf(r, buf)
       ELSE BufOk([buf EXCEPT !.data = copy_into(@, r.start, bytes)], <<>>)

\* get_full_var_range starting at the pointer's offset instead of byte 0
interp_get_full_var_range_from_offset(buf, ptr) ==
    IF interp_var_idx(ptr) = 0 THEN RangeErr("NullPointer")
    ELSE IF interp_var_idx(ptr) > Len(buf.vars) THEN RangeErr("IncorrectVarOffset")
    ELSE LET var == buf.vars[interp_var_idx(ptr)]
         IN IF ptr.offset > as_i32(var.len) \/ ptr.offset < 0
            THEN RangeErr("OutOfValueBounds")
            ELSE interp_slice(buf.data, var.idx + ptr.offset, var.idx + var.len)

\* VarBuffer::get_full_var_range
interp_get_full_var_range(buf, ptr) ==
    IF interp_var_idx(ptr) = 0 THEN RangeErr("NullPointer")
    ELSE IF interp_var_idx(ptr) > Len(buf.vars) THEN RangeErr("IncorrectVarOffset")
    ELSE LET var == buf.vars[interp_var_idx(ptr)]
         IN IF ptr.offset > as_i32(var.len) \/ ptr.offset < 0
            THEN RangeErr("OutOfValueBounds")
            ELSE interp_slice(buf.data, var.idx, var.idx + var.len)

\* VarBuffer::shrink_vars_to without its 'len - 1': one variable more is kept
shrink_vars_to_keeps_len(buf, len) ==
    IF len > Len(buf.vars) THEN [panic |-> TRUE, buf |-> buf]
    ELSE [panic |-> FALSE,
          buf |-> [vars |-> SubSeq(buf.vars, 1, len),
                   data |-> IF len = 0 THEN <<>>
                            ELSE resize(buf.data, buf.vars[len].idx + buf.vars[len].len)]]

\* VarBuffer::shrink_vars_to (called with len = fp >= 1): keeps len - 1 variables
\* and resizes the data to the end of the last one kept.  var.idx + var.len is
\* the u32 sum add_var_dyn computed when it made the record: a record whose
\* sum leaves a u32 exists in a release build only, where the sum wraps.
shrink_vars_to(buf, len) ==
    IF len - 1 > Len(buf.vars) THEN [panic |-> TRUE, buf |-> buf]
    ELSE [panic |-> FALSE,
          buf |-> [vars |-> SubSeq(buf.vars, 1, len - 1),
                   data |-> IF len - 1 = 0 THEN <<>>
                            ELSE resize(buf.data,
                                        as_u32(buf.vars[len - 1].idx
                                               + buf.vars[len - 1].len))]]

\* a u32 difference in a build
u32_sub(build, a, b) ==
    IF a >= b THEN [panic |-> FALSE, val |-> a - b]
    ELSE IF build = "debug" THEN [panic |-> TRUE, val |-> 0]
    ELSE [panic |-> FALSE, val |-> (a - b) % Half]

\* Runtime::fp_offset; 'var * -1' overflows for the least i32
fp_offset(build, fp, var) ==
    IF var < 0
    THEN IF var = -TagBit
         THEN IF build = "debug" THEN [panic |-> TRUE, val |-> 0]
              ELSE u32_sub(build, fp, as_u32(var))
         ELSE u32_sub(build, fp, -var)
    ELSE u32_add(build, fp, var)

-----------------------------------------------------------------------------
(* SpecRun: the bytecode Runtime, src/interpreter/src/runtime.rs 297-615.   *)
(* rt.frames holds the active run_func invocations, innermost last; the     *)
(* opcode run at each step is an input, so that every finite run of every   *)
(* program is a behaviour.                                                  *)

ECALL_PRINT_INT == 0

ECALL_PRINT_STR == 1

\* the frame callstack.resize pads with
DummyFrame == [file |-> 0, name |-> 0, line |-> 0]

NoReturn ==
    [valid |-> FALSE, depth |-> 0, fp |-> 0, callstack_len |-> 0,
     vars_before |-> 0, data_before |-> 0, callstack_before |-> 0, upper_bound |-> 0,
     callstack_now |-> 0]

\* the Program a run was started on: none while the opcodes are inputs
NoProgram == [ops |-> <<>>, strings |-> <<>>, functions |-> <<>>]

\* Runtime::new, before run_program
Runtime_new ==
    [status |-> "new", err |-> "", stack_trace |-> <<>>, op |-> "new",
     stack |-> VarBuffer_new, heap |-> VarBuffer_new, callstack |-> <<>>,
     stdout |-> <<>>, frames |-> <<>>, steps |-> 0, returned |-> NoReturn,
     before_call |-> <<>>, budget |-> MaxSteps, program |-> NoProgram]

\* run_func's locals
Frame(fp, callstack_len, func_desc) ==
    [fp |-> fp, callstack_len |-> callstack_len, func_desc |-> func_desc]

\* fp and func_desc of the innermost run_func
cur_fp == Last(rt.frames).fp

cur_func_desc == Last(rt.frames).func_desc

\* the callstack truncated to len, never filled up to it (Vec::truncate)
callstack_truncate(cs, len) ==
    IF len <= Len(cs) THEN SubSeq(cs, 1, len) ELSE cs

\* Vec::resize(len, DummyFrame) on the callstack
callstack_resize(cs, len) ==
    IF len <= Len(cs) THEN SubSeq(cs, 1, len)
    ELSE cs \o [i \in 1..(len - Len(cs)) |-> DummyFrame]

\* run_op is running on the Runtime as it is: Ok(false), nothing changed
Same ==
    [status |-> "ok", err |-> "", stack |-> rt.stack, heap |-> rt.heap,
     callstack |-> rt.callstack, stdout |-> rt.stdout]

\* what a VarBuffer result that is not ok makes of run_op
Stopped(r) == [Same EXCEPT !.status = r.status, !.err = r.err]

RunUnchanged ==
    UNCHANGED <<stack, heap, historical_data, history, ret, op, nfail, walker, rq, pt, lexer, symtab, tw>>

\* rt.before_call holds, for each active Call, the callstack as it was
\* immediately before that Call, and rt.budget the ops the run may execute
Running == rt.status = "running" /\ rt.steps < rt.budget

\* run_func's loop after run_op: Ok(false) goes on to the next opcode; an Err
\* leaves every run_func through '?' and run_program appends the callstack to
\* its stack trace; a panic ends the program
Step(name, o) ==
    /\ rt' = IF o.status = "ok"
             THEN [rt EXCEPT !.op = name, !.steps = @ + 1, !.stack = o.stack,
                             !.heap = o.heap, !.callstack = o.callstack,
                             !.stdout = o.stdout]
             ELSE [rt EXCEPT !.op = name, !.steps = @ + 1, !.stack = o.stack,
                             !.heap = o.heap, !.callstack = o.callstack,
                             !.stdout = o.stdout, !.frames = <<>>,
                             !.before_call = <<>>,
                             !.status = IF o.status = "err" THEN "Err" ELSE "panic",
                             !.err = o.err,
                             !.stack_trace = IF o.status = "err" THEN o.callstack
                                             ELSE <<>>]
    /\ RunUnchanged

\* Opcode::StackAlloc
run_StackAlloc(build, space) ==
    LET s == add_var_dyn(build, rt.stack, space)
    IN IF s.panic THEN [Same EXCEPT !.status = "panic"]
       ELSE [Same EXCEPT !.stack = s.buf]

\* Opcode::StackAllocPtr
run_StackAllocPtr(build, space) ==
    LET a == add_var_dyn(build, rt.stack, space)
        s == a.buf
        var == Len(s.vars)
    IN IF a.panic THEN [Same EXCEPT !.status = "panic"]
       ELSE IF idx_too_large(var) THEN [Same EXCEPT !.status = "panic", !.stack = s]
       ELSE [Same EXCEPT !.stack = interp_push(s, ptr_bytes(interp_new_stack(var, 0)))]

\* Opcode::Alloc
run_Alloc(build, space) ==
    LET a == add_var_dyn(build, rt.heap, space)
        h == a.buf
        var == Len(h.vars)
    IN IF a.panic THEN [Same EXCEPT !.status = "panic"]
       ELSE IF idx_too_large(var) THEN [Same EXCEPT !.status = "panic", !.heap = h]
       ELSE [Same EXCEPT !.heap = h,
                         !.stack = interp_push(@, ptr_bytes(interp_new_heap(var, 0)))]

\* Opcode::MakeTempInt64
run_MakeTempInt64(value) ==
    [Same EXCEPT !.stack = interp_push(@, le_bytes(value % USize, WordBytes))]

\* LoadStr allocating str_len bytes and writing no terminator
run_LoadStr_without_nul(build, str_value) ==
    LET str_len == Len(str_value)
        a == add_var_dyn(build, rt.heap, str_len)
        h == a.buf
        idx == Len(h.vars)
        w1 == interp_set(build, h, interp_new_heap(idx, 0), str_value)
    IN IF a.panic THEN [Same EXCEPT !.status = "panic"]
       ELSE IF idx_too_large(idx) THEN [Same EXCEPT !.status = "panic", !.heap = h]
       ELSE IF w1.status # "ok" THEN [Stopped(w1) EXCEPT !.heap = h]
       ELSE [Same EXCEPT !.heap = w1.buf,
                         !.stack = interp_push(@, ptr_bytes(interp_new_heap(idx, 0)))]

\* Opcode::LoadStr, program.strings[idx] given by its bytes
run_LoadStr(build, str_value) ==
    LET str_len == Len(str_value)
        a == add_var_dyn(build, rt.heap, str_len + 1)
        h == a.buf
        idx == Len(h.vars)
        w1 == interp_set(build, h, interp_new_heap(idx, 0), str_value)
        w2 == interp_set(build, w1.buf, interp_new_heap(idx, as_i32(str_len)), <<0>>)
    IN IF a.panic THEN [Same EXCEPT !.status = "panic"]
       ELSE IF idx_too_large(idx) THEN [Same EXCEPT !.status = "panic", !.heap = h]
       ELSE IF w1.status # "ok" THEN [Stopped(w1) EXCEPT !.heap = h]
       ELSE IF w2.status # "ok" THEN [Stopped(w2) EXCEPT !.heap = w1.buf]
       ELSE [Same EXCEPT !.heap = w2.buf,
                         !.stack = interp_push(@, ptr_bytes(interp_new_heap(idx, 0)))]

\* Opcode::GetLocal64 / 32 / 16 / 8, n the bytes of the type
run_GetLocal(build, n, var, offset) ==
    LET i == fp_offset(build, cur_fp, var)
        ptr == interp_new_stack(i.val, as_i32(offset))
        g == interp_get_var(build, rt.stack, ptr, n)
    IN IF i.panic \/ idx_too_large(i.val) THEN [Same EXCEPT !.status = "panic"]
       ELSE IF g.status # "ok" THEN Stopped(g)
       ELSE [Same EXCEPT !.stack = interp_push(@, g.bytes)]

\* Opcode::SetLocal64 / 32 / 16 / 8
run_SetLocal(build, n, var, offset) ==
    LET i == fp_offset(build, cur_fp, var)
        ptr == interp_new_stack(i.val, as_i32(offset))
        word == interp_pop(rt.stack, n)
        w == interp_set(build, word.buf, ptr, word.bytes)
    IN IF i.panic \/ idx_too_large(i.val) THEN [Same EXCEPT !.status = "panic"]
       ELSE IF word.status # "ok" THEN Stopped(word)
       ELSE IF w.status # "ok" THEN [Stopped(w) EXCEPT !.stack = word.buf]
       ELSE [Same EXCEPT !.stack = w.buf]

\* Opcode::Get64 / 32 / 16 / 8
run_Get(build, n, offset) ==
    LET p == interp_pop(rt.stack, WordBytes)
        ptr0 == bytes_ptr(p.bytes)
        sum == i32_add(build, ptr0.offset, offset)
        ptr == [ptr0 EXCEPT !.offset = sum.val]
        g == interp_get_var(build, IF interp_is_stack(ptr) THEN p.buf ELSE rt.heap, ptr, n)
    IN IF p.status # "ok" THEN Stopped(p)
       ELSE IF sum.panic THEN [Same EXCEPT !.status = "panic", !.stack = p.buf]
       ELSE IF g.status # "ok" THEN [Stopped(g) EXCEPT !.stack = p.buf]
       ELSE [Same EXCEPT !.stack = interp_push(p.buf, g.bytes)]

\* Opcode::Set64 / 32 / 16 / 8
run_Set(build, n, offset) ==
    LET p == interp_pop(rt.stack, WordBytes)
        ptr0 == bytes_ptr(p.bytes)
        sum == i32_add(build, ptr0.offset, offset)
        ptr == [ptr0 EXCEPT !.offset = sum.val]
        word == interp_pop(p.buf, n)
        w == interp_set(build, IF interp_is_stack(ptr) THEN word.buf ELSE rt.heap,
                        ptr, word.bytes)
    IN IF p.status # "ok" THEN Stopped(p)
       ELSE IF sum.panic THEN [Same EXCEPT !.status = "panic", !.stack = p.buf]
       ELSE IF word.status # "ok" THEN [Stopped(word) EXCEPT !.stack = p.buf]
       ELSE IF w.status # "ok" THEN [Stopped(w) EXCEPT !.stack = word.buf]
       ELSE IF interp_is_stack(ptr) THEN [Same EXCEPT !.stack = w.buf]
       ELSE [Same EXCEPT !.stack = word.buf, !.heap = w.buf]

\* Opcode::AddCallstackDesc
run_AddCallstackDesc(desc) == [Same EXCEPT !.callstack = Append(@, desc)]

\* RemoveCallstackDesc removing the oldest frame instead of the newest
run_RemoveCallstackDesc_oldest ==
    IF rt.callstack = <<>> THEN [Same EXCEPT !.status = "err", !.err = "CallstackEmpty"]
    ELSE [Same EXCEPT !.callstack = Tail(@)]

\* Opcode::RemoveCallstackDesc
run_RemoveCallstackDesc ==
    IF rt.callstack = <<>> THEN [Same EXCEPT !.status = "err", !.err = "CallstackEmpty"]
    ELSE [Same EXCEPT !.callstack = Front(@)]

\* the bytes of a string before its first 0, if it has one
null_terminated(str_bytes) ==
    IF \E i \in 1..Len(str_bytes) : str_bytes[i] = 0
    THEN [found |-> TRUE,
          bytes |-> SubSeq(str_bytes, 1,
                           (CHOOSE i \in 1..Len(str_bytes) :
                               /\ str_bytes[i] = 0
                               /\ \A j \in 1..(i - 1) : str_bytes[j] # 0) - 1)]
    ELSE [found |-> FALSE, bytes |-> <<>>]

\* Opcode::Ecall; write_ok tells whether the write to stdout succeeds
run_Ecall(call, write_ok) ==
    IF call = ECALL_PRINT_INT
    THEN LET word == interp_pop(rt.stack, WordBytes)
         IN IF word.status # "ok" THEN Stopped(word)
            ELSE IF ~write_ok
                 THEN [Same EXCEPT !.status = "err", !.err = "WriteFailed",
                                   !.stack = word.buf]
            ELSE [Same EXCEPT !.stack = word.buf,
                              !.stdout = Append(@, [int |-> as_i64(le_value(word.bytes))])]
    ELSE IF call = ECALL_PRINT_STR
    THEN LET p == interp_pop(rt.stack, WordBytes)
             ptr == bytes_ptr(p.bytes)
             buf == IF interp_is_stack(ptr) THEN p.buf ELSE rt.heap
             r == interp_get_full_var_range(buf, ptr)
             str_value == null_terminated(slice(buf.data, r.start, r.end))
         IN IF p.status # "ok" THEN Stopped(p)
            ELSE IF ~r.ok THEN [Stopped(BufOf(r, buf)) EXCEPT !.stack = p.buf]
            ELSE IF ~str_value.found
                 THEN [Same EXCEPT !.status = "err", !.err = "MissingNullTerminator",
                                   !.stack = p.buf]
            ELSE IF ~write_ok
                 THEN [Same EXCEPT !.status = "err", !.err = "WriteFailed",
                                   !.stack = p.buf]
            ELSE [Same EXCEPT !.stack = p.buf,
                              !.stdout = Append(@, [str |-> str_value.bytes])]
    ELSE [Same EXCEPT !.status = "err", !.err = "InvalidEnviromentCall"]

\* inputs of SpecRun
Spaces == {0, 1, U32Bytes, WordBytes}

TypeBytes == {1, 2, U32Bytes, WordBytes}

TempValues == {0, 1}

Strings == {<<>>, <<1>>, <<1, 0>>}

LocalVars == {-TagBit, -2, -1, 0, 1}

Offsets == 0..1

FuncDescs == {[file |-> 1, name |-> 1]}

CallFrames == {[file |-> 1, name |-> 1, line |-> 1]}

\* the line of a Call; the descriptors of AddCallstackDesc carry another
CallLines == {2}

\* program.ops[pcounter] as run_func looks at it: a Func header or another opcode
Headers == {[is_func |-> TRUE, desc |-> d] : d \in FuncDescs}
               \cup {[is_func |-> FALSE, desc |-> [file |-> 0, name |-> 0]]}

\* Runtime::run_program: run_func(&program, 0) up to its loop
RunProgram(header) ==
    /\ rt.status = "new"
    /\ rt' = IF header.is_func
             THEN [rt EXCEPT !.status = "running", !.op = "run_program",
                             !.frames = <<Frame(upper_bound(rt.stack), Len(rt.callstack),
                                                header.desc)>>]
             ELSE [rt EXCEPT !.status = "Err", !.op = "run_program",
                             !.err = "InvalidFunctionHeader",
                             !.stack_trace = rt.callstack]
    /\ RunUnchanged

OpFunc == Running /\ Step("Func", Same)

OpStackAlloc(build, space) ==
    Running /\ Step("StackAlloc", run_StackAlloc(build, space))

OpStackAllocPtr(build, space) ==
    Running /\ Step("StackAllocPtr", run_StackAllocPtr(build, space))

OpAlloc(build, space) == Running /\ Step("Alloc", run_Alloc(build, space))

OpMakeTempInt64(value) == Running /\ Step("MakeTempInt64", run_MakeTempInt64(value))

OpLoadStr(build, str_value) == Running /\ Step("LoadStr", run_LoadStr(build, str_value))

OpGetLocal(build, n, var, offset) ==
    Running /\ Step("GetLocal", run_GetLocal(build, n, var, offset))

OpSetLocal(build, n, var, offset) ==
    Running /\ Step("SetLocal", run_SetLocal(build, n, var, offset))

OpGet(build, n, offset) == Running /\ Step("Get", run_Get(build, n, offset))

OpSet(build, n, offset) == Running /\ Step("Set", run_Set(build, n, offset))

OpAddCallstackDesc(desc) ==
    Running /\ Step("AddCallstackDesc", run_AddCallstackDesc(desc))

OpRemoveCallstackDesc == Running /\ Step("RemoveCallstackDesc", run_RemoveCallstackDesc)

OpEcall(call, write_ok) == Running /\ Step("Ecall", run_Ecall(call, write_ok))

\* Opcode::Call up to the loop of the run_func it calls: the caller's frame is
\* pushed on the callstack, then run_func looks at the header
OpCall(header, line) ==
    /\ Running
    /\ Len(rt.frames) < MaxDepth
    /\ LET pushed == Append(rt.callstack,
                            [file |-> cur_func_desc.file, name |-> cur_func_desc.name,
                             line |-> line])
       IN IF header.is_func
          THEN rt' = [rt EXCEPT !.op = "Call", !.steps = @ + 1, !.callstack = pushed,
                                !.frames = Append(@, Frame(upper_bound(rt.stack),
                                                           Len(pushed), header.desc)),
                                !.before_call = Append(@, rt.callstack)]
          ELSE rt' = [rt EXCEPT !.op = "Call", !.steps = @ + 1, !.callstack = pushed,
                                !.frames = <<>>, !.before_call = <<>>, !.status = "Err",
                                !.err = "InvalidFunctionHeader", !.stack_trace = pushed]
    /\ RunUnchanged

\* Opcode::Ret: run_op returns Ok(true), run_func shrinks the stack to fp,
\* resizes the callstack to its length at entry and returns Ok; rt.returned is
\* the Runtime at that return.  Then the Call arm of the caller pops the frame
\* it pushed, or run_program returns Ok.
OpRet ==
    /\ Running
    /\ LET f == Last(rt.frames)
           shrunk == shrink_vars_to(rt.stack, f.fp)
           resized == callstack_resize(rt.callstack, f.callstack_len)
           returned == [valid |-> TRUE, depth |-> Len(rt.frames), fp |-> f.fp,
                        callstack_len |-> f.callstack_len,
                        vars_before |-> Len(rt.stack.vars),
                        data_before |-> Len(rt.stack.data),
                        callstack_before |-> Len(rt.callstack),
                        upper_bound |-> upper_bound(shrunk.buf),
                        callstack_now |-> Len(resized)]
       IN IF shrunk.panic
          THEN rt' = [rt EXCEPT !.op = "Ret", !.steps = @ + 1, !.status = "panic",
                                !.frames = <<>>, !.before_call = <<>>]
          ELSE IF Len(rt.frames) = 1
          THEN rt' = [rt EXCEPT !.op = "Ret", !.steps = @ + 1, !.status = "Ok",
                                !.stack = shrunk.buf, !.callstack = resized,
                                !.frames = <<>>, !.before_call = <<>>,
                                !.returned = returned]
          ELSE IF resized = <<>>
          THEN rt' = [rt EXCEPT !.op = "Ret", !.steps = @ + 1, !.status = "Err",
                                !.err = "CallstackEmpty", !.stack_trace = resized,
                                !.stack = shrunk.buf, !.callstack = resized,
                                !.frames = <<>>, !.before_call = <<>>,
                                !.returned = returned]
          ELSE rt' = [rt EXCEPT !.op = "Ret", !.steps = @ + 1,
                                !.stack = shrunk.buf, !.callstack = Front(resized),
                                !.frames = Front(@), !.before_call = Front(@),
                                !.returned = returned]
    /\ RunUnchanged

InitRun ==
    /\ MemInit
    /\ walker = [NoWalker EXCEPT !.mode = "off"]
    /\ rq = RqIdle /\ pt = PtIdle /\ rt = Runtime_new
    /\ lexer = NoLexer /\ symtab = NoSymbolTable /\ tw = NoTreeWalker

NextRun ==
    \/ \E header \in Headers : RunProgram(header)
    \/ OpFunc
    \/ \E build \in Builds, space \in Spaces : OpStackAlloc(build, space)
    \/ \E build \in Builds, space \in Spaces : OpStackAllocPtr(build, space)
    \/ \E build \in Builds, space \in Spaces : OpAlloc(build, space)
    \/ \E value \in TempValues : OpMakeTempInt64(value)
    \/ \E build \in Builds, str_value \in Strings : OpLoadStr(build, str_value)
    \/ \E build \in Builds, n \in TypeBytes, var \in LocalVars, offset \in Offsets :
           OpGetLocal(build, n, var, offset)
    \/ \E build \in Builds, n \in TypeBytes, var \in LocalVars, offset \in Offsets :
           OpSetLocal(build, n, var, offset)
    \/ \E build \in Builds, n \in TypeBytes, offset \in Offsets : OpGet(build, n, offset)
    \/ \E build \in Builds, n \in TypeBytes, offset \in Offsets : OpSet(build, n, offset)
    \/ \E desc \in CallFrames : OpAddCallstackDesc(desc)
    \/ OpRemoveCallstackDesc
    \/ \E header \in Headers, line \in CallLines : OpCall(header, line)
    \/ \E call \in 0..2, write_ok \in BOOLEAN : OpEcall(call, write_ok)
    \/ OpRet

SpecRun == InitRun /\ [][NextRun]_vars

\* C10: when run_func returns Ok through Ret, stack.upper_bound() is the fp it
\* took at its entry and callstack.len() is the callstack's length at its
\* entry, at every nesting depth.
C10_FrameRestored ==
    rt.returned.valid =>
        /\ rt.returned.upper_bound = rt.returned.fp
        /\ rt.returned.callstack_now = rt.returned.callstack_len

\* a called function that allocated a variable and removed a callstack frame
\* it had not added has returned
C10_Witness ==
    /\ rt.returned.valid
    /\ rt.returned.depth = MaxDepth
    /\ rt.returned.vars_before >= rt.returned.fp
    /\ rt.returned.callstack_before < rt.returned.callstack_len


-----------------------------------------------------------------------------
(* Both engines side by side: a behaviour is either a run of the logging    *)
(* Memory or a run of the interpreter's Runtime.                            *)

InitEngines == Init \/ InitRun

\* Memory::write_bytes through a heap pointer, on the fields m of a Memory
heap_write_bytes(m, ptr, bytes) ==
    LET r == get_var_range(m.heap, ptr, Len(bytes))
        value_start == Len(m.historical_data)
        value_end_overwrite_start == value_start + Len(bytes)
        old == slice(m.heap.data, r.start, r.end)
        overwrite_end == value_end_overwrite_start + Len(old)
    IN IF ~r.ok
       THEN [ok |-> FALSE, err |-> r.err,
             m |-> [m EXCEPT !.historical_data = @ \o bytes]]
       ELSE [ok |-> TRUE, err |-> "",
             m |-> [m EXCEPT !.historical_data = @ \o bytes \o old,
                             !.heap.data = copy_into(@, r.start, bytes),
                             !.history = push_history(@,
                                 SetValue(ptr, value_start, value_end_overwrite_start,
                                          overwrite_end))]]

\* TreeWalker::interpret_value on Value::String, the string given by its
\* bytes: add_heap_var(str_len + 1), write_bytes of the string, write_bytes
\* of one 0 at offset str_len
interpret_value_String(string) ==
    /\ MemEnabled
    /\ LET str_len == Len(string)
           m0 == [heap |-> add_var(heap, str_len + 1),
                  historical_data |-> historical_data,
                  history |-> push_history(history, AllocHeapVar(str_len + 1))]
           ptr == new_heap(Len(m0.heap.vars), 0)
           w1 == heap_write_bytes(m0, ptr, string)
           w2 == heap_write_bytes(w1.m, set_offset(ptr, str_len), <<0>>)
           out == IF ~w1.ok THEN w1 ELSE w2
       IN /\ heap' = out.m.heap
          /\ historical_data' = out.m.historical_data
          /\ history' = out.m.history
          /\ UNCHANGED stack
          /\ Returned("interpret_value", IF out.ok THEN "Ok" ELSE out.err)

NextEngines ==
    \/ rt = RtIdle /\ Next
    \/ rt = RtIdle /\ \E string \in Strings : interpret_value_String(string)
    \/ rt # RtIdle /\ NextRun

SpecEngines == InitEngines /\ [][NextEngines]_vars

\* every variable record of the buffer ends inside its data
vars_within(buf) == \A i \in 1..Len(buf.vars) : buf.vars[i].idx + buf.vars[i].len <= Len(buf.data)

\* C12: in every reachable state of the Memory and of the Runtime, every
\* variable record of the stack and of the heap ends at or below the length
\* of its region's data.
C12_VarsInsideData ==
    /\ vars_within(stack) /\ vars_within(heap)
    /\ rt # RtIdle => (vars_within(rt.stack) /\ vars_within(rt.heap))

\* a byte pop or typed pop has succeeded above a variable and has emptied
\* the unframed bytes down to the variable's upper bound
C12_Witness ==
    /\ op \in {"pop_stack", "pop_bytes"} /\ ret = "Ok"
    /\ stack.vars # <<>> /\ Last(stack.vars).len > 0 /\ unframed(stack) = 0


\* the heap h2 holds everything the heap h held, where it was
heap_kept(h, h2) ==
    /\ Len(h2.vars) >= Len(h.vars)
    /\ Len(h2.data) >= Len(h.data)
    /\ \A i \in 1..Len(h.vars) : h2.vars[i].idx = h.vars[i].idx /\ h2.vars[i].len = h.vars[i].len

\* the stack s2 has fewer variables or fewer bytes than the stack s
stack_shrunk(s, s2) == Len(s2.vars) < Len(s.vars) \/ Len(s2.data) < Len(s.data)

\* the Memory operations that pop, and the opcodes whose handlers call
\* VarBuffer::pop (Ret is the function return)
MemoryPops == {"pop_stack_var", "pop_stack", "pop_bytes", "pop_stack_bytes_into", "pop_keep_bytes"}

OpcodePops == {"SetLocal", "Get", "Set", "Ecall"}

\* C13: no step of the Memory or of the Runtime, failing steps and Ret
\* included, removes a heap variable, shortens heap.data or changes the
\* (idx, len) of an existing heap variable; the stack shrinks only in a
\* function return or an operation that pops.
C13_HeapNeverShrinks ==
    [][/\ heap_kept(heap, heap')
       /\ stack_shrunk(stack, stack') => op' \in MemoryPops
       /\ (rt # RtIdle) =>
             /\ heap_kept(rt.heap, rt'.heap)
             /\ stack_shrunk(rt.stack, rt'.stack) => rt'.op \in OpcodePops \cup {"Ret"}]_vars

\* a function has returned and truncated the stack while the heap holds a
\* variable
C13_Witness ==
    /\ rt # RtIdle /\ rt.op = "Ret" /\ rt.returned.valid
    /\ rt.returned.vars_before > Len(rt.stack.vars)
    /\ rt.heap.vars # <<>> /\ rt.heap.data # <<>>


\* C14: pop_keep_bytes(keep, pop) called with at least keep + pop unframed
\* bytes returns Ok, shortens stack.data by pop, leaves the top keep bytes
\* equal to the former top keep bytes and leaves every byte below the
\* removed span as it was.
C14_PopKeepBytes ==
    [][\A keep \in 0..MaxLen, pop \in 0..MaxLen :
          (pop_keep_bytes(keep, pop) /\ unframed(stack) >= keep + pop) =>
              LET top == Len(stack.data)
                  top_ == Len(stack'.data)
              IN /\ ret' = "Ok"
                 /\ top_ = top - pop
                 /\ slice(stack'.data, top_ - keep, top_) = slice(stack.data, top - keep, top)
                 /\ slice(stack'.data, 0, top - keep - pop) = slice(stack.data, 0, top - keep - pop)]_vars


-----------------------------------------------------------------------------
(* Program::new, src/interpreter/src/opcodes.rs 55-125: the allocating      *)
(* pseudo-ops and the opcodes built from them.                              *)

PseudoOp_StackAlloc(space) == [kind |-> "StackAlloc", space |-> space]

PseudoOp_StackAllocPtr(space) == [kind |-> "StackAllocPtr", space |-> space]

PseudoOp_Alloc(space) == [kind |-> "Alloc", space |-> space]

\* the match of Program::new on an allocating pseudo-op
Program_new_op(pseudo) ==
    CASE pseudo.kind = "StackAlloc" -> [kind |-> "StackAlloc", space |-> pseudo.space]
      [] pseudo.kind = "StackAllocPtr" -> [kind |-> "StackAllocPtr", space |-> pseudo.space]
      [] pseudo.kind = "Alloc" -> [kind |-> "StackAllocPtr", space |-> pseudo.space]

\* run_op on an allocating opcode
run_op_alloc(opcode) ==
    CASE opcode.kind = "StackAlloc" -> \E build \in Builds : OpStackAlloc(build, opcode.space)
      [] opcode.kind = "StackAllocPtr" -> \E build \in Builds : OpStackAllocPtr(build, opcode.space)
      [] opcode.kind = "Alloc" -> \E build \in Builds : OpAlloc(build, opcode.space)

\* the word on top of the value stack, as a pointer
top_ptr(buf) == bytes_ptr(slice(buf.data, Len(buf.data) - WordBytes, Len(buf.data)))

\* C15: executing the opcode that Program::new builds from PseudoOp::Alloc(n)
\* appends one n-byte zero-filled variable to the heap, leaves stack.vars
\* unchanged and pushes a heap-tagged pointer to the new variable (index the
\* new |heap.vars|, offset 0) onto the value stack.
C15_AllocBuiltByProgramNew ==
    [][\A n \in Spaces :
          (run_op_alloc(Program_new_op(PseudoOp_Alloc(n))) /\ rt'.status = "running") =>
              /\ Len(rt'.heap.vars) = Len(rt.heap.vars) + 1
              /\ Last(rt'.heap.vars).len = n
              /\ rt'.heap.data = rt.heap.data \o Zeros(n)
              /\ rt'.stack.vars = rt.stack.vars
              /\ Len(rt'.stack.data) = Len(rt.stack.data) + WordBytes
              /\ ~interp_is_stack(top_ptr(rt'.stack))
              /\ interp_var_idx(top_ptr(rt'.stack)) = Len(rt'.heap.vars)
              /\ top_ptr(rt'.stack).offset = 0]_vars


\* C16: LoadStr of a string s (the empty string included) succeeds and leaves
\* exactly one new heap variable, of length |s| + 1, holding s followed by a
\* 0 byte, and the word pushed on the value stack is a heap-tagged pointer to
\* that variable with offset 0; the tree walker's string value allocates the
\* same heap variable.
C16_LoadStrNul ==
    [][/\ \A build \in Builds, s \in Strings :
            (rt # RtIdle /\ rt'.op = "LoadStr" /\ OpLoadStr(build, s)) =>
                /\ rt'.status = "running"
                /\ Len(rt'.heap.vars) = Len(rt.heap.vars) + 1
                /\ Last(rt'.heap.vars).len = Len(s) + 1
                /\ Last(rt'.heap.vars).idx = Len(rt.heap.data)
                /\ rt'.heap.data = rt.heap.data \o s \o <<0>>
                /\ rt'.stack = interp_push(rt.stack, slice(rt'.stack.data, Len(rt.stack.data), Len(rt'.stack.data)))
                /\ Len(rt'.stack.data) = Len(rt.stack.data) + WordBytes
                /\ ~interp_is_stack(top_ptr(rt'.stack))
                /\ interp_var_idx(top_ptr(rt'.stack)) = Len(rt'.heap.vars)
                /\ top_ptr(rt'.stack).offset = 0
       /\ \A s \in Strings :
            (rt = RtIdle /\ op' = "interpret_value" /\ interpret_value_String(s)) =>
                /\ ret' = "Ok"
                /\ Len(heap'.vars) = Len(heap.vars) + 1
                /\ Last(heap'.vars).len = Len(s) + 1
                /\ Last(heap'.vars).idx = Len(heap.data)
                /\ heap'.data = heap.data \o s \o <<0>>]_vars

\* a LoadStr of the empty string has run
C16_Witness ==
    /\ rt # RtIdle /\ rt.op = "LoadStr" /\ rt.status = "running"
    /\ Last(rt.heap.vars).len = 1


\* the entry function has executed MakeTempInt(0) as its first op and nothing
\* else
main_made_temp_zero ==
    /\ rt.status = "running" /\ rt.op = "MakeTempInt64" /\ rt.steps = 1
    /\ Len(rt.frames) = 1
    /\ rt.stack = interp_push(VarBuffer_new, le_bytes(0, WordBytes))

\* C17: when the entry function executes MakeTempInt(0) and then
\* Ecall(PRINT_STR), run_program returns an error of kind InvalidPointer
\* whose stack_trace has a frame named after the entry function, and nothing
\* is written to the output.
C17_NullDerefInMain ==
    [][(/\ main_made_temp_zero
        /\ rt'.op = "Ecall"
        /\ \E write_ok \in BOOLEAN : OpEcall(ECALL_PRINT_STR, write_ok)) =>
           /\ rt'.status = "Err"
           /\ rt'.err = "InvalidPointer"
           /\ \E i \in 1..Len(rt'.stack_trace) :
                  rt'.stack_trace[i].name = cur_func_desc.name
           /\ rt'.stdout = rt.stdout]_vars


\* the functions that made the Calls still active when the innermost of the
\* run_func invocations in frames executes an op: all but the innermost
callers(frames) == [k \in 1..(Len(frames) - 1) |-> frames[k].func_desc]

\* the Calls active when the op named opname fails: a Call that fails on the
\* callee's header has pushed its own frame, and a Call that fails after the
\* callee's Ret has one invocation less
active_calls(frames, opname) ==
    CASE opname = "Call" -> [k \in 1..Len(frames) |-> frames[k].func_desc]
      [] opname = "Ret" -> callers(Front(frames))
      [] OTHER -> callers(frames)

\* the (file, name) of the frames of a stack trace that Calls pushed
call_frames(trace) ==
    LET pushed == SelectSeq(trace, LAMBDA f : f.line \in CallLines)
    IN [k \in 1..Len(pushed) |-> [file |-> pushed[k].file, name |-> pushed[k].name]]

\* C18: when an op fails while d Calls are active, the stack_trace of the
\* error returned by run_program holds the d frames those Calls pushed,
\* outermost first and once each, and it is the callstack as the failing op
\* left it: no run_func level changed either while the error propagated.
C18_ErrorAttachment ==
    [][(rt.status = "running" /\ rt'.status = "Err") =>
          /\ call_frames(rt'.stack_trace) = active_calls(rt.frames, rt'.op)
          /\ rt'.stack_trace = rt'.callstack]_vars


\* what C19 says of a GetLocal / SetLocal of the local var in the frame of
\* the innermost function: an InvalidPointer error when fp + var is not a
\* variable of the stack, and else fp + var as the index addressed
local_addressed(build, var) ==
    IF cur_fp + var \notin 1..Len(rt.stack.vars)
    THEN rt'.status = "Err" /\ rt'.err = "InvalidPointer"
    ELSE fp_offset(build, cur_fp, var) = [panic |-> FALSE, val |-> cur_fp + var]

\* C19: for every fp >= 1 and every signed var, the least i32 and the vars
\* below -fp included, a GetLocal or SetLocal (whose operand pop succeeds)
\* returns an InvalidPointer error when fp + var is outside 1..|stack.vars|,
\* never panicking or wrapping, and otherwise addresses the stack variable
\* of index fp + var.
C19_LocalBounds ==
    [][/\ rt'.op = "GetLocal" =>
            \A build \in Builds, n \in TypeBytes, var \in LocalVars, offset \in Offsets :
                OpGetLocal(build, n, var, offset) => local_addressed(build, var)
       /\ rt'.op = "SetLocal" =>
            \A build \in Builds, n \in TypeBytes, var \in LocalVars, offset \in Offsets :
                (OpSetLocal(build, n, var, offset) /\ interp_pop(rt.stack, n).status = "ok")
                    => local_addressed(build, var)]_vars


-----------------------------------------------------------------------------
(* SpecCalls: runs of the Runtime made of the opcodes that touch the         *)
(* callstack (and StackAlloc), long enough for a callee to remove more       *)
(* frames than it added.                                                    *)

InitCalls ==
    /\ MemInit
    /\ walker = [NoWalker EXCEPT !.mode = "off"]
    /\ rq = RqIdle /\ pt = PtIdle
    /\ lexer = NoLexer /\ symtab = NoSymbolTable /\ tw = NoTreeWalker
    /\ rt = [Runtime_new EXCEPT !.budget = MaxCallSteps]

NextCalls ==
    \/ \E header \in Headers : RunProgram(header)
    \/ OpFunc
    \/ \E build \in Builds, space \in Spaces : OpStackAlloc(build, space)
    \/ \E desc \in CallFrames : OpAddCallstackDesc(desc)
    \/ OpRemoveCallstackDesc
    \/ \E header \in Headers, line \in CallLines : OpCall(header, line)
    \/ OpRet

SpecCalls == InitCalls /\ [][NextCalls]_vars

\* C20: a Call pushes exactly one CallFrame, with the caller's file and name
\* and the Call's line, before the callee runs, and when the callee has
\* returned Ok the callstack is the callstack of immediately before the
\* Call, whatever AddCallstackDesc and RemoveCallstackDesc the callee ran.
C20_CallFrameDiscipline ==
    [][/\ (rt.status = "running" /\ rt'.op = "Call") =>
            \E line \in CallLines :
                rt'.callstack = Append(rt.callstack,
                                       [file |-> cur_func_desc.file,
                                        name |-> cur_func_desc.name, line |-> line])
       /\ (rt.status = "running" /\ rt'.op = "Ret" /\ rt'.status = "running") =>
            rt'.callstack = Last(rt.before_call)]_vars


\* C21: RemoveCallstackDesc on an empty callstack fails with CallstackEmpty
\* and changes neither stack, heap nor callstack; on a non-empty callstack it
\* removes exactly the newest frame; AddCallstackDesc(frame) appends exactly
\* that frame; neither op touches stack or heap.
C21_CallstackDesc ==
    [][/\ (rt.status = "running" /\ rt'.op = "RemoveCallstackDesc") =>
            /\ rt'.stack = rt.stack /\ rt'.heap = rt.heap
            /\ IF rt.callstack = <<>>
               THEN /\ rt'.status = "Err" /\ rt'.err = "CallstackEmpty"
                    /\ rt'.callstack = rt.callstack
               ELSE /\ rt'.status = "running"
                    /\ rt'.callstack = SubSeq(rt.callstack, 1, Len(rt.callstack) - 1)
       /\ (rt.status = "running" /\ rt'.op = "AddCallstackDesc") =>
            /\ rt'.stack = rt.stack /\ rt'.heap = rt.heap
            /\ rt'.status = "running"
            /\ \E desc \in CallFrames :
                  OpAddCallstackDesc(desc) /\ rt'.callstack = rt.callstack \o <<desc>>]_vars

\* a RemoveCallstackDesc has removed the frame of an AddCallstackDesc from
\* above the frame a Call pushed
C21_Witness ==
    /\ rt.op = "RemoveCallstackDesc" /\ rt.status = "running"
    /\ rt.callstack # <<>> /\ Last(rt.callstack).line \in CallLines
    /\ rt.stack.data # <<>>


-----------------------------------------------------------------------------
(* SpecPrint: runs of the Runtime made of the opcodes that build a          *)
(* variable, store a word in it, make a pointer to it and print through it. *)

\* the word whose bytes are all 1
WordOfOnes == (USize - 1) \div (ByteVals - 1)

\* words for MakeTempInt64: null, pointers to variable 1 of the heap and of
\* the stack with offsets 0 and 1, a pointer to a heap variable 2, a word
\* without a zero byte
PrintWords ==
    {0, 1, 1 + Half, 2, TagBit + 1, TagBit + 1 + Half, WordOfOnes}

InitPrint ==
    /\ MemInit
    /\ walker = [NoWalker EXCEPT !.mode = "off"]
    /\ rq = RqIdle /\ pt = PtIdle
    /\ lexer = NoLexer /\ symtab = NoSymbolTable /\ tw = NoTreeWalker
    /\ rt = [Runtime_new EXCEPT !.budget = MaxPrintSteps]

NextPrint ==
    \/ \E header \in Headers : RunProgram(header)
    \/ \E build \in Builds, space \in {0, WordBytes} : OpStackAlloc(build, space)
    \/ \E build \in Builds, space \in {0, WordBytes} : OpAlloc(build, space)
    \/ \E value \in PrintWords : OpMakeTempInt64(value)
    \/ \E build \in Builds : OpSet(build, WordBytes, 0)
    \/ \E write_ok \in BOOLEAN : OpEcall(ECALL_PRINT_STR, write_ok)

SpecPrint == InitPrint /\ [][NextPrint]_vars

\* the bytes of b before its first 0 (all of b without one)
before_first_zero(b) ==
    LET clean == {k \in 0..Len(b) : \A j \in 1..k : b[j] # 0}
    IN SubSeq(b, 1, CHOOSE k \in clean : \A m \in clean : m <= k)

\* C22: Ecall(PRINT_STR) pops one pointer; for a pointer to an existing
\* variable with an offset inside it, the whole variable of the region the
\* tag selects is scanned from its byte 0, whatever the offset: without a
\* zero byte (a zero-length variable included) the op fails with
\* MissingNullTerminator and writes nothing, and otherwise exactly the bytes
\* before the first zero byte are written to the output (when the output
\* accepts the write).
C22_PrintStr ==
    [][(rt.status = "running" /\ rt'.op = "Ecall") =>
          \A write_ok \in BOOLEAN :
             LET p == interp_pop(rt.stack, WordBytes)
                 ptr == bytes_ptr(p.bytes)
                 buf == IF interp_is_stack(ptr) THEN p.buf ELSE rt.heap
                 i == interp_var_idx(ptr)
                 var == buf.vars[i]
                 bytes == slice(buf.data, var.idx, var.idx + var.len)
             IN (/\ OpEcall(ECALL_PRINT_STR, write_ok)
                 /\ p.status = "ok"
                 /\ i \in 1..Len(buf.vars)
                 /\ ptr.offset >= 0 /\ ptr.offset <= var.len) =>
                    /\ rt'.stack = p.buf
                    /\ rt'.heap = rt.heap
                    /\ IF \A j \in 1..Len(bytes) : bytes[j] # 0
                       THEN /\ rt'.status = "Err" /\ rt'.err = "MissingNullTerminator"
                            /\ rt'.stdout = rt.stdout
                       ELSE IF write_ok
                       THEN /\ rt'.status = "running"
                            /\ rt'.stdout = rt.stdout \o <<[str |-> before_first_zero(bytes)]>>
                       ELSE rt'.stdout = rt.stdout]_vars

\* a string has been printed through a pointer with offset 1 into a stored
\* word whose first byte is not 0
C22_Witness ==
    /\ rt.op = "Ecall" /\ rt.status = "running"
    /\ rt.stdout # <<>> /\ Last(rt.stdout) = [str |-> <<1>>]
    /\ rt.heap.vars # <<>>


-----------------------------------------------------------------------------
(* SpecWords: runs of the Runtime made of the opcodes that allocate          *)
(* variables of one and two words and load and store words in them.         *)

\* words for MakeTempInt64: a value, and pointers to variable 1 of the heap
\* and of the stack
WordValues == {WordOfOnes, 1, TagBit + 1}

WordSpaces == {WordBytes, 2 * WordBytes}

\* the locals GetLocalWord names: the first two of the frame
WordVars == 0..1

InitWords ==
    /\ MemInit
    /\ walker = [NoWalker EXCEPT !.mode = "off"]
    /\ rq = RqIdle /\ pt = PtIdle
    /\ lexer = NoLexer /\ symtab = NoSymbolTable /\ tw = NoTreeWalker
    /\ rt = [Runtime_new EXCEPT !.budget = MaxWordSteps]

NextWords ==
    \/ \E header \in Headers : RunProgram(header)
    \/ \E space \in WordSpaces : OpStackAlloc("release", space)
    \/ \E space \in WordSpaces : OpAlloc("release", space)
    \/ \E value \in WordValues : OpMakeTempInt64(value)
    \/ \E var \in WordVars, offset \in Offsets :
           OpGetLocal("release", WordBytes, var, offset)
    \/ \E offset \in Offsets : OpSetLocal("release", WordBytes, 0, offset)
    \/ \E offset \in Offsets : OpGet("release", WordBytes, offset)
    \/ \E offset \in Offsets : OpSet("release", WordBytes, offset)

SpecWords == InitWords /\ [][NextWords]_vars

\* where the word at offset off of the variable ptr points to lies in the
\* region buf, and whether it lies inside that variable
word_at(buf, ptr, off) ==
    LET i == interp_var_idx(ptr)
    IN IF i \notin 1..Len(buf.vars) THEN [inside |-> FALSE, start |-> 0]
       ELSE [inside |-> off >= 0 /\ off + WordBytes <= buf.vars[i].len,
             start |-> buf.vars[i].idx + off]

\* C23: SetWord{offset: o} through a pointer p stores the popped word at
\* offset p.offset + o of p's variable in the region p's tag selects, and
\* GetWord{offset: o} through p pushes the word that lies there, so that a
\* word stored through p and o is the word a later load through p and o
\* pushes.
C23_WordRoundTrip ==
    [][/\ (rt.status = "running" /\ rt'.op = "Set") =>
            \A o \in Offsets :
               LET p == interp_pop(rt.stack, WordBytes)
                   ptr == bytes_ptr(p.bytes)
                   word == interp_pop(p.buf, WordBytes)
                   buf == IF interp_is_stack(ptr) THEN word.buf ELSE rt.heap
                   at == word_at(buf, ptr, ptr.offset + o)
                   stored == [buf EXCEPT !.data = copy_into(@, at.start, word.bytes)]
               IN (/\ OpSet("release", WordBytes, o)
                   /\ p.status = "ok" /\ word.status = "ok" /\ at.inside) =>
                      /\ rt'.status = "running"
                      /\ rt'.stack = IF interp_is_stack(ptr) THEN stored ELSE word.buf
                      /\ rt'.heap = IF interp_is_stack(ptr) THEN rt.heap ELSE stored
       /\ (rt.status = "running" /\ rt'.op = "Get") =>
            \A o \in Offsets :
               LET p == interp_pop(rt.stack, WordBytes)
                   ptr == bytes_ptr(p.bytes)
                   buf == IF interp_is_stack(ptr) THEN p.buf ELSE rt.heap
                   at == word_at(buf, ptr, ptr.offset + o)
               IN (/\ OpGet("release", WordBytes, o)
                   /\ p.status = "ok" /\ at.inside) =>
                      /\ rt'.status = "running"
                      /\ rt'.heap = rt.heap
                      /\ rt'.stack = interp_push(p.buf,
                             slice(buf.data, at.start, at.start + WordBytes))]_vars

\* C25: GetLocalWord{var, offset} on an existing stack variable fp + var
\* pushes the 8 bytes at offset..offset + 8 of that variable when offset + 8
\* is at most the variable's length, whatever the offset, and fails with an
\* error without pushing when it is more; stack.vars and the bytes of every
\* variable are as before.
C25_GetLocalWord ==
    [][(rt.status = "running" /\ rt'.op = "GetLocal") =>
          \A var \in WordVars, o \in Offsets :
             LET ptr == interp_new_stack(cur_fp + var, o)
                 at == word_at(rt.stack, ptr, o)
             IN (/\ OpGetLocal("release", WordBytes, var, o)
                 /\ cur_fp + var \in 1..Len(rt.stack.vars)) =>
                    IF at.inside
                    THEN /\ rt'.status = "running"
                         /\ rt'.stack = interp_push(rt.stack,
                               slice(rt.stack.data, at.start, at.start + WordBytes))
                    ELSE /\ rt'.status = "Err"
                         /\ rt'.stack = rt.stack]_vars

-----------------------------------------------------------------------------
(* SpecProgram: whole programs.  Program::new lays the functions of a file  *)
(* out in the order its HashMap hands them over, run_program runs the       *)
(* function at opcode 0, and run_func fetches opcode after opcode.  No      *)
(* opcode changes pc, so the opcodes a run fetches are a function of the    *)
(* program alone.                                                           *)

\* a PseudoOp or an Opcode with its operands
Opcode(o, x, y) == [op |-> o, x |-> x, y |-> y]

\* the functions of a file as Program::new flattens them, each headed by its name
RECURSIVE pseudo_functions(_, _)
pseudo_functions(functions, order) ==
    IF order = <<>> THEN <<>>
    ELSE <<Opcode("Func", Head(order), 0)>> \o functions[Head(order)]
            \o pseudo_functions(functions, Tail(order))

\* how many of the first n entries of flat are the PseudoOp kind
count_before(flat, n, kind) == Cardinality({j \in 1..n : flat[j].op = kind})

\* the opcode index of the header of the function called name
func_index(flat, name) ==
    (CHOOSE j \in 1..Len(flat) : flat[j].op = "Func" /\ flat[j].x = name) - 1

\* Program::new for one file whose functions the HashMap yields in order
Program_new(functions, order) ==
    LET flat == pseudo_functions(functions, order)
        op_of(i) ==
            LET pseudo == flat[i]
            IN CASE pseudo.op = "Func" ->
                        Opcode("Func", 0, count_before(flat, i - 1, "Func"))
                 [] pseudo.op = "Alloc" -> Opcode("StackAllocPtr", pseudo.x, 0)
                 [] pseudo.op = "LoadString" ->
                        Opcode("LoadStr", count_before(flat, i - 1, "LoadString"), 0)
                 [] pseudo.op = "Call" ->
                        Opcode("Call", func_index(flat, pseudo.x), pseudo.y)
                 [] OTHER -> pseudo
        loads == SelectSeq(flat, LAMBDA pseudo : pseudo.op = "LoadString")
    IN [ops |-> [i \in 1..Len(flat) |-> op_of(i)],
        strings |-> [i \in 1..Len(loads) |-> loads[i].x],
        functions |-> order]

\* the opcodes fetched at most
MaxFetch == 12

\* run_func(program, pcounter) looking at program.ops[pcounter]
header_at(ops, pcounter) ==
    IF ops[pcounter + 1].op = "Func"
    THEN [is_func |-> TRUE, desc |-> [file |-> ops[pcounter + 1].x,
                                      name |-> ops[pcounter + 1].y]]
    ELSE [is_func |-> FALSE, desc |-> [file |-> 0, name |-> 0]]

\* the opcodes the loop of run_func fetches from pc on while no opcode fails,
\* those of the functions it calls included, up to its Ret
RECURSIVE fetched_from(_, _, _)
fetched_from(ops, pc, fuel) ==
    IF fuel = 0 \/ pc >= Len(ops) THEN <<>>
    ELSE LET opcode == ops[pc + 1]
         IN IF opcode.op = "Ret" THEN <<opcode>>
            ELSE IF opcode.op = "Call"
            THEN LET callee == IF header_at(ops, opcode.x).is_func
                               THEN fetched_from(ops, opcode.x + 1, fuel - 1)
                               ELSE <<>>
                 IN IF callee # <<>> /\ Last(callee).op = "Ret"
                    THEN <<opcode>> \o callee
                            \o fetched_from(ops, pc + 1, fuel - 1 - Len(callee))
                    ELSE <<opcode>> \o callee
            ELSE <<opcode>> \o fetched_from(ops, pc + 1, fuel - 1)

\* run_op on one opcode of rt.program
run_op(opcode) ==
    CASE opcode.op = "Func" -> OpFunc
      [] opcode.op = "StackAlloc" -> \E build \in Builds : OpStackAlloc(build, opcode.x)
      [] opcode.op = "StackAllocPtr" -> \E build \in Builds : OpStackAllocPtr(build, opcode.x)
      [] opcode.op = "Alloc" -> \E build \in Builds : OpAlloc(build, opcode.x)
      [] opcode.op = "MakeTempIntWord" -> OpMakeTempInt64(opcode.x)
      [] opcode.op = "LoadStr" ->
            \E build \in Builds : OpLoadStr(build, rt.program.strings[opcode.x + 1])
      [] opcode.op = "GetLocalWord" ->
            \E build \in Builds : OpGetLocal(build, WordBytes, opcode.x, opcode.y)
      [] opcode.op = "SetLocalWord" ->
            \E build \in Builds : OpSetLocal(build, WordBytes, opcode.x, opcode.y)
      [] opcode.op = "GetWord" -> \E build \in Builds : OpGet(build, WordBytes, opcode.x)
      [] opcode.op = "SetWord" -> \E build \in Builds : OpSet(build, WordBytes, opcode.x)
      [] opcode.op = "Call" -> OpCall(header_at(rt.program.ops, opcode.x), opcode.y)
      [] opcode.op = "Ecall" -> OpEcall(opcode.x, TRUE)
      [] opcode.op = "Ret" -> OpRet
      [] OTHER -> FALSE

\* run_program(program): run_func(&program, 0)
RunProgramAtZero ==
    /\ rt.program # NoProgram
    /\ RunProgram(header_at(rt.program.ops, 0))

\* one turn of run_func's loop: the next opcode is fetched and run
FetchAndRun ==
    /\ rt.status = "running"
    /\ LET fetched == fetched_from(rt.program.ops, 1, MaxFetch)
       IN /\ rt.steps < Len(fetched)
          /\ run_op(fetched[rt.steps + 1])

\* the string of simple_read_write, its letters told apart as far as a byte can
Hello == <<1, 2, 3, 3, 1>>

ProgramStrings == {Hello, <<2>>, <<>>}

ProgramSpaces == {WordBytes, 2 * WordBytes}

\* the file of simple_read_write: main calls helper, helper stores the string
\* pointer in its local, loads it back and prints it
main_c(space, string, offset) ==
    [main |-> <<Opcode("Call", "helper", 1), Opcode("Ret", 0, 0)>>,
     helper |-> <<Opcode("StackAlloc", space, 0), Opcode("LoadString", string, 0),
                  Opcode("SetLocalWord", 0, offset), Opcode("GetLocalWord", 0, offset),
                  Opcode("Ecall", ECALL_PRINT_STR, 4), Opcode("Ret", 0, 0)>>]

\* the orders a HashMap may yield the two functions in
Layouts == {<<"main", "helper">>, <<"helper", "main">>}

InitProgram ==
    /\ MemInit
    /\ walker = [NoWalker EXCEPT !.mode = "off"]
    /\ rq = RqIdle /\ pt = PtIdle
    /\ lexer = NoLexer /\ symtab = NoSymbolTable /\ tw = NoTreeWalker
    /\ \E space \in ProgramSpaces, string \in ProgramStrings, offset \in Offsets,
          order \in Layouts :
          rt = [Runtime_new EXCEPT !.budget = MaxFetch,
                                   !.program = Program_new(main_c(space, string, offset),
                                                           order)]

NextProgram ==
    \/ RunProgramAtZero
    \/ FetchAndRun

SpecProgram == InitProgram /\ [][NextProgram]_vars

\* the top word of the value stack
top_word(buf) == slice(buf.data, Len(buf.data) - WordBytes, Len(buf.data))

\* the file of simple_read_write itself, laid out in some order
is_simple_read_write ==
    \E order \in Layouts : rt.program = Program_new(main_c(WordBytes, Hello, 0), order)

\* C24: in helper, the GetLocalWord{0, offset} that follows a successful
\* SetLocalWord{0, offset} pushes the word that was stored, which is the pointer
\* LoadStr pushed, whatever the offset; and the run of simple_read_write, in
\* whichever order Program::new lays main and helper out, does not stop before
\* its Ret and ends with Ok and the output "hello".
C24_CallAndPrintThroughLocal ==
    /\ rt.op = "GetLocal" =>
          /\ rt.status = "running"
          /\ top_word(rt.stack) = ptr_bytes(interp_new_heap(1, 0))
    /\ is_simple_read_write =>
          /\ rt.status = "running" =>
                rt.steps < Len(fetched_from(rt.program.ops, 1, MaxFetch))
          /\ rt.status \notin {"new", "running"} =>
                (rt.status = "Ok" /\ rt.stdout = <<[str |-> Hello]>>)

-----------------------------------------------------------------------------
(* SpecNames: identifier interning.  A Lexer is made on a source and lexes  *)
(* one identifier after the other; each becomes Token::Ident(id) with the   *)
(* id its NameTable gives it.                                               *)

\* the identifiers a source is made of at most
MaxIdents == 5

\* the identifiers of the test, and the name the table is born with
Idents == {"foo", "bar", "baz", "bat", "print"}

\* BiMap::insert(left, right): the pairs with that left or that right go
BiMap_insert(map, left, right) ==
    {pair \in map : pair[1] # left /\ pair[2] # right} \cup {<<left, right>>}

\* BiMap::get_by_left
get_by_left(map, left) ==
    IF \E pair \in map : pair[1] = left
    THEN [some |-> TRUE, val |-> (CHOOSE pair \in map : pair[1] = left)[2]]
    ELSE [some |-> FALSE, val |-> 0]

\* BiMap::get_by_right
get_by_right(map, right) ==
    IF \E pair \in map : pair[2] = right
    THEN [some |-> TRUE, val |-> (CHOOSE pair \in map : pair[2] = right)[1]]
    ELSE [some |-> FALSE, val |-> ""]

\* NameTable::new
NameTable_new == [map |-> BiMap_insert({}, "print", 0), next |-> 1]

\* NameTable::insert: the table after it and the id returned
NameTable_insert(table, sym) ==
    LET known == get_by_left(table.map, sym)
    IN IF known.some THEN [table |-> table, id |-> known.val]
       ELSE [table |-> [map |-> BiMap_insert(table.map, sym, table.next),
                        next |-> table.next + 1],
             id |-> table.next]

\* NameTable::get_id
get_id(table, sym) == get_by_left(table.map, sym)

\* NameTable::get_str: unwrap panics on an id that names nothing
get_str(table, id) ==
    LET found == get_by_right(table.map, id)
    IN [panic |-> ~found.some, str |-> found.val]

\* Lexer::new on a source
Lexer_new == [phase |-> "lexing", name_table |-> NameTable_new, source |-> <<>>,
              tokens |-> <<>>]

\* the identifier arm of the lexer: Token::Ident(id) of the next identifier
LexIdent(ident) ==
    /\ lexer # NoLexer
    /\ Len(lexer.source) < MaxIdents
    /\ LET known == get_id(lexer.name_table, ident)
           inserted == NameTable_insert(lexer.name_table, ident)
       IN lexer' = IF known.some
                   THEN [lexer EXCEPT !.source = Append(@, ident),
                                      !.tokens = Append(@, known.val)]
                   ELSE [lexer EXCEPT !.source = Append(@, ident),
                                      !.tokens = Append(@, inserted.id),
                                      !.name_table = inserted.table]
    /\ UNCHANGED <<stack, heap, historical_data, history, ret, op, nfail, walker, rq, pt,
                   rt, symtab, tw>>

InitNames ==
    /\ MemInit
    /\ walker = [NoWalker EXCEPT !.mode = "off"]
    /\ rq = RqIdle /\ pt = PtIdle /\ rt = RtIdle
    /\ lexer = Lexer_new /\ symtab = NoSymbolTable /\ tw = NoTreeWalker

NextNames == \E ident \in Idents : LexIdent(ident)

SpecNames == InitNames /\ [][NextNames]_vars

\* how many distinct identifiers the source holds before the first occurrence
\* of its i-th identifier
distinct_before(source, i) ==
    LET first == CHOOSE j \in 1..i : source[j] = source[i]
                                     /\ \A k \in 1..(j - 1) : source[k] # source[i]
    IN Cardinality({source[k] : k \in 1..(first - 1)})

\* C26: in a fresh lexer the identifiers get the ids 0, 1, 2, ... in the order
\* of their first occurrence, a repeated identifier the id of its first
\* occurrence, and get_str of each id is the identifier interned under it.
C26_Interning ==
    lexer # NoLexer =>
       \A i \in 1..Len(lexer.source) :
          /\ lexer.tokens[i] = distinct_before(lexer.source, i)
          /\ get_str(lexer.name_table, lexer.tokens[i]) =
                [panic |-> FALSE, str |-> lexer.source[i]]

\* C28: a successful checked access of a VarBuffer, in the Memory or in the
\* interpreter, covers exactly the length asked for, and only bytes between
\* var.idx and var.idx + var.len of the variable the pointer names.
C28_NoAliasing ==
    (rq.phase = "done" /\ rq.res.ok) =>
        /\ rq.res.end - rq.res.start = rq.len
        /\ RangeVar.idx <= rq.res.start
        /\ rq.res.end <= RangeVar.idx + RangeVar.len

\* a is a prefix of b
is_prefix(a, b) == Len(a) <= Len(b) /\ SubSeq(b, 1, Len(a)) = a

\* C30: a return through Ret leaves in stack.vars the variables below the fp
\* of the function, which are those of its entry since no opcode changes the
\* variables below the fp of an active function, and truncates stack.data to
\* the end of the last of them (to nothing without one), so that no byte
\* above the variables survives it, whoever pushed it.
C30_ReturnTruncation ==
    [][(rt # RtIdle /\ rt.status = "running") =>
          /\ \A k \in 1..Len(rt.frames) :
                /\ rt.frames[k].fp - 1 <= Len(rt.stack.vars)
                /\ is_prefix(SubSeq(rt.stack.vars, 1, rt.frames[k].fp - 1),
                             rt'.stack.vars)
          /\ rt'.op = "Ret" =>
                LET kept == SubSeq(rt.stack.vars, 1, cur_fp - 1)
                    end == IF kept = <<>> THEN 0
                           ELSE Last(kept).idx + Last(kept).len
                IN /\ rt'.status # "panic"
                   /\ rt'.stack.vars = kept
                   /\ end <= Len(rt.stack.data)
                   /\ rt'.stack.data = SubSeq(rt.stack.data, 1, end)]_vars

\* a called function has returned at once, and the bytes its caller had pushed
\* before calling it are gone
C30_Witness ==
    /\ rt.op = "Ret" /\ rt.status = "running"
    /\ rt.steps = 3
    /\ rt.returned.depth = 2
    /\ rt.returned.data_before > 0
    /\ rt.stack.data = <<>>

\* the first and the last position in historical_data a history entry names
entry_range(action) ==
    CASE action.kind = "SetValue" ->
            [ordered |-> /\ action.value_start <= action.value_end_overwrite_start
                         /\ action.value_end_overwrite_start <= action.overwrite_end,
             end |-> action.overwrite_end]
      [] action.kind \in {"PopStack", "PushStack"} ->
            [ordered |-> action.value_start <= action.value_end, end |-> action.value_end]
      [] action.kind = "PopStackVar" ->
            [ordered |-> /\ action.var_start <= action.var_end_stack_start
                         /\ action.var_end_stack_start <= action.stack_end,
             end |-> action.stack_end]
      [] OTHER -> [ordered |-> TRUE, end |-> 0]

\* C29: whatever a Memory operation returns, the history before it is a
\* prefix of the history after it and historical_data before it a prefix of
\* historical_data after it, and every range a history entry names lies
\* within historical_data.
C29_AppendOnlyLog ==
    [][/\ is_prefix(history, history')
       /\ is_prefix(historical_data, historical_data')
       /\ \A i \in 1..Len(history') :
             /\ entry_range(history'[i]).ordered
             /\ entry_range(history'[i]).end <= Len(historical_data')]_vars

\* a failing call has spilled bytes, and the history is full of entries the
\* last of which names bytes of historical_data
C29_Witness ==
    /\ nfail > 0
    /\ Len(history) = MaxHistory
    /\ Last(history).kind \in {"SetValue", "PopStack", "PopStackVar"}
    /\ entry_range(Last(history)).end > 0
    /\ entry_range(Last(history)).end < Len(historical_data)

-----------------------------------------------------------------------------
(* SpecSlice: Memory::get_slice and Memory::get_var_slice.  The Memory gets *)
(* its variables, then one slice is asked of it.                            *)

\* Memory::get_slice as compiled by a build: the range of the region's data
\* that is returned
get_slice(build, ptr, len) ==
    LET buffer == IF is_stack(ptr) THEN stack ELSE heap
    IN IF var_idx(ptr) = 0 THEN RangeErr(invalid_ptr)
       ELSE IF var_idx(ptr) > Len(buffer.vars) THEN RangeErr(invalid_ptr)
       ELSE LET var == buffer.vars[var_idx(ptr)]
                sum == u32_add(build, offset_of(ptr), len)
            IN IF offset_outside(ptr, var) THEN RangeErr(invalid_offset)
               ELSE IF sum.panic THEN RangePanic
               ELSE IF sum.val > var.len THEN RangeErr(invalid_offset)
               ELSE interp_slice(buffer.data, var.idx + offset_of(ptr), sum.val)

\* Memory::get_var_slice
get_var_slice(ptr) ==
    LET buffer == IF is_stack(ptr) THEN stack ELSE heap
    IN IF var_idx(ptr) = 0 THEN RangeErr(invalid_ptr)
       ELSE IF var_idx(ptr) > Len(buffer.vars) THEN RangeErr(invalid_ptr)
       ELSE LET var == buffer.vars[var_idx(ptr)]
            IN IF offset_outside(ptr, var) THEN RangeErr(invalid_offset)
               ELSE interp_slice(buffer.data, var.idx + offset_of(ptr),
                                 var.idx + var.len)

SliceAsked(fn, build, ptr, len, res) ==
    /\ rq.phase = "build"
    /\ rq' = [phase |-> "done", fn |-> fn, build |-> build, ptr |-> ptr, len |-> len,
              res |-> res]
    /\ UNCHANGED <<stack, heap, historical_data, history, ret, op, nfail, walker, pt, rt,
                   lexer, symtab, tw>>

\* memory.get_slice(ptr, len)
AskGetSlice(build, ptr, len) ==
    /\ rq.phase = "build"
    /\ SliceAsked("get_slice", build, ptr, len, get_slice(build, ptr, len))

\* memory.get_var_slice(ptr)
AskGetVarSlice(ptr) ==
    /\ rq.phase = "build"
    /\ SliceAsked("get_var_slice", "debug", ptr, 0, get_var_slice(ptr))

InitSlice ==
    /\ MemInit
    /\ walker = [NoWalker EXCEPT !.mode = "off"]
    /\ rq = [phase |-> "build"] /\ pt = PtIdle /\ rt = RtIdle
    /\ lexer = NoLexer /\ symtab = NoSymbolTable /\ tw = NoTreeWalker

NextSlice ==
    \/ \E len \in 0..MaxLen : rq.phase = "build" /\ add_stack_var(len)
    \/ \E len \in 0..MaxLen : rq.phase = "build" /\ add_heap_var(len)
    \/ \E build \in Builds, ptr \in RangePtrs, len \in RangeLens :
           AskGetSlice(build, ptr, len)
    \/ \E ptr \in RangePtrs : AskGetVarSlice(ptr)

SpecSlice == InitSlice /\ [][NextSlice]_vars

\* the region a slice was asked of, and the variable, when the pointer names one
slice_region == IF is_stack(rq.ptr) THEN stack ELSE heap

slice_var == slice_region.vars[var_idx(rq.ptr)]

\* the pointer names a variable of its region and an offset inside it
slice_ptr_valid ==
    /\ var_idx(rq.ptr) \in 1..Len(slice_region.vars)
    /\ offset_of(rq.ptr) < slice_var.len

\* C27: for a valid pointer and offset + len within the variable, wherever the
\* variable lies in its region, get_slice(ptr, len) is
\* data[var.idx + offset .. var.idx + offset + len] of the region the
\* pointer's tag selects, and get_var_slice(ptr) is
\* data[var.idx + offset .. var.idx + var.len] of that region.
C27_Slices ==
    /\ (/\ rq.phase = "done" /\ rq.fn = "get_slice"
        /\ slice_ptr_valid /\ offset_of(rq.ptr) + rq.len <= slice_var.len) =>
          rq.res = RangeOk(slice_var.idx + offset_of(rq.ptr),
                           slice_var.idx + offset_of(rq.ptr) + rq.len)
    /\ (rq.phase = "done" /\ rq.fn = "get_var_slice" /\ slice_ptr_valid) =>
          rq.res = RangeOk(slice_var.idx + offset_of(rq.ptr),
                           slice_var.idx + slice_var.len)

-----------------------------------------------------------------------------
(* Memory::pop_stack_bytes_into against the checked range of a pointer.     *)

\* the bounds check of a pointer and a length: a variable of the region is
\* named and offset + len is at most its length
range_valid(ptr, len) ==
    LET buf == IF is_stack(ptr) THEN stack ELSE heap
    IN /\ var_idx(ptr) \in 1..Len(buf.vars)
       /\ offset_of(ptr) + len <= buf.vars[var_idx(ptr)].len

\* C31: pop_stack_bytes_into(ptr, len) with at least len unframed bytes and a
\* valid (ptr, len) copies the top len bytes of the stack to the pointer's
\* target, shrinks stack.data by len and appends SetValue (the written bytes,
\* then the overwritten bytes) and PopStack (the popped bytes), in this
\* order; when it fails it changes neither the buffers nor the history.
C31_PopStackBytesInto ==
    [][op' = "pop_stack_bytes_into" =>
          \A ptr \in Ptrs, len \in 0..MaxLen :
             pop_stack_bytes_into(ptr, len) =>
                LET buf == IF is_stack(ptr) THEN stack ELSE heap
                    top == Len(stack.data)
                    from_bytes == slice(stack.data, top - len, top)
                    start == buf.vars[var_idx(ptr)].idx + offset_of(ptr)
                    to_bytes == slice(buf.data, start, start + len)
                    written == copy_into(buf.data, start, from_bytes)
                    logged == Len(historical_data)
                IN /\ (unframed(stack) >= len /\ range_valid(ptr, len)) =>
                         /\ ret' = "Ok"
                         /\ stack'.vars = stack.vars
                         /\ stack'.data = resize(IF is_stack(ptr) THEN written
                                                 ELSE stack.data, top - len)
                         /\ heap' = IF is_stack(ptr) THEN heap
                                    ELSE [heap EXCEPT !.data = written]
                         /\ historical_data' = historical_data \o from_bytes \o to_bytes
                         /\ history' = history \o
                               <<SetValue(ptr, logged, logged + len, logged + 2 * len),
                                 PopStack(logged, logged + len)>>
                   /\ ret' # "Ok" =>
                         /\ ret' \in {"StackTooShort", "StackPopInvalidatesVariable",
                                      invalid_ptr, invalid_offset}
                         /\ stack' = stack /\ heap' = heap /\ history' = history]_vars

-----------------------------------------------------------------------------
(* The steps of a forwards walker.                                          *)

\* C32: on a forwards walker the k-th call of next(), 1 <= k <= |history|,
\* returns the memory after the first k actions of the history were applied;
\* the first call already applies the first action.
C32_ForwardStepping ==
    (walker.mode = "fwd" /\ walker.nPrev = 0 /\ walker.nNext \in 1..Len(history))
        => /\ walker.out = "Some"
           /\ walker.memory = forward_effect(walker.nNext).memory

-----------------------------------------------------------------------------
(* The bytes of historical_data and the ranges of the history.              *)

\* the positions of historical_data (counted from 1) a history entry names
entry_positions(action) ==
    CASE action.kind = "SetValue" -> (action.value_start + 1)..action.overwrite_end
      [] action.kind \in {"PopStack", "PushStack"} ->
            (action.value_start + 1)..action.value_end
      [] action.kind = "PopStackVar" -> (action.var_start + 1)..action.stack_end
      [] OTHER -> {}

\* the positions named by some entry of the history
referenced == UNION {entry_positions(history[i]) : i \in 1..Len(history)}

\* C33: after any sequence of Memory operations, failing set and write_bytes
\* calls included, every byte of historical_data lies in a range named by
\* some history entry: the bytes referenced are as many as historical_data
\* holds.
C33_HistoricalBytesReferenced ==
    ret # "panic" =>
        /\ referenced = 1..Len(historical_data)
        /\ Cardinality(referenced) = Len(historical_data)

-----------------------------------------------------------------------------
(* SpecAlloc: the allocating opcodes of a run, with operands up to the       *)
(* largest u32, and the order of the variable records of a region.          *)

\* SpecAlloc: opcodes are run while fewer than this many have been.
MaxAllocSteps == 4

\* the operands of the allocating opcodes: a byte, and the largest u32
WideSpaces == {1, Half - 1}

InitAlloc ==
    /\ MemInit
    /\ walker = [NoWalker EXCEPT !.mode = "off"]
    /\ rq = RqIdle /\ pt = PtIdle
    /\ lexer = NoLexer /\ symtab = NoSymbolTable /\ tw = NoTreeWalker
    /\ rt = [Runtime_new EXCEPT !.budget = MaxAllocSteps]

NextAlloc ==
    \/ \E header \in Headers : RunProgram(header)
    \/ \E build \in Builds, space \in WideSpaces : OpStackAlloc(build, space)
    \/ \E build \in Builds, space \in WideSpaces : OpStackAllocPtr(build, space)
    \/ \E build \in Builds, space \in WideSpaces : OpAlloc(build, space)
    \/ \E header \in Headers, line \in CallLines : OpCall(header, line)
    \/ OpRet

SpecAlloc == InitAlloc /\ [][NextAlloc]_vars

\* consecutive records do not overlap
vars_ordered(buf) ==
    \A i \in 1..(Len(buf.vars) - 1) :
        buf.vars[i].idx + buf.vars[i].len <= buf.vars[i + 1].idx

\* a step that added records to the region left the records it had as they
\* were
vars_kept(before, after) ==
    Len(after.vars) > Len(before.vars) => is_prefix(before.vars, after.vars)

\* C34: in every reachable state the variable records of each region of the
\* Memory and of the Runtime are ordered and disjoint, and an allocation
\* changes no record the region already had; variable pops, function returns
\* and allocations above unframed bytes included.
C34_VarsOrdered ==
    [][/\ vars_ordered(stack') /\ vars_ordered(heap')
       /\ vars_kept(stack, stack') /\ vars_kept(heap, heap')
       /\ (rt # RtIdle /\ rt' # RtIdle) =>
             /\ vars_ordered(rt'.stack) /\ vars_ordered(rt'.heap)
             /\ vars_kept(rt.stack, rt'.stack) /\ vars_kept(rt.heap, rt'.heap)]_vars

-----------------------------------------------------------------------------
(* The pop of the callstack after a Call.                                   *)

\* C35: the CallstackEmpty error after a Call is unreachable.  When the
\* callee returns through Ret the callstack has been resized to its length
\* at the callee's entry, which is at least 1 since Call had pushed a frame,
\* and the pop that follows succeeds; CallstackEmpty arises from
\* RemoveCallstackDesc only.
C35_CallstackEmptyUnreachable ==
    [][rt.status = "running" =>
          /\ (rt'.status = "Err" /\ rt'.err = "CallstackEmpty") =>
                rt'.op = "RemoveCallstackDesc"
          /\ (rt'.op = "Ret" /\ Len(rt.frames) > 1 /\ rt'.status # "panic") =>
                /\ rt'.returned.callstack_now = Last(rt.frames).callstack_len
                /\ rt'.returned.callstack_now >= 1
                /\ rt'.status = "running"
                /\ Len(rt'.callstack) = rt'.returned.callstack_now - 1]_vars

\* a callee has removed the frame its Call had pushed, so that the callstack
\* was empty when it executed Ret, and the caller runs on
C35_Witness ==
    /\ rt.op = "Ret" /\ rt.status = "running"
    /\ rt.returned.valid /\ rt.returned.depth = 2
    /\ rt.returned.callstack_before = 0
    /\ rt.returned.callstack_now = 1

-----------------------------------------------------------------------------
(* The end of a run of SpecProgram.  Every function of its programs ends    *)
(* with Ret and main calls helper, which calls nothing.  The loop of        *)
(* run_func is sequential code: while the program runs, its next opcode is  *)
(* fetched and run, and the count of opcodes run grows with every step.     *)

\* run_program has not been called yet, or the loop of run_func has an opcode
\* to fetch: a step of the program is possible
can_step ==
    \/ rt.status = "new"
    \/ /\ rt.status = "running"
       /\ rt.steps < Len(fetched_from(rt.program.ops, 1, MaxFetch))

\* C36: no opcode jumps, so a program whose functions all end with Ret and
\* whose call graph has no cycle is run to its end: where the run can take
\* no further step, run_program has returned, with Ok or with an Err.
C36_Termination == can_step \/ rt.status \in {"Ok", "Err"}

-----------------------------------------------------------------------------
(* SpecEscape: a pointer to a callee's stack variable outlives the callee.  *)
(* helper allocates a variable with StackAllocPtr and stores the pointer in *)
(* main's local; after helper's Ret main may allocate a variable of its own *)
(* and then loads or stores a word through the pointer.                     *)

\* the sizes of the variables main allocates after the call: none, or one
Reallocs == {<<>>, <<WordBytes>>, <<2 * WordBytes>>}

Derefs == {"GetWord", "SetWord"}

escape_c(space, realloc, deref, offset) ==
    [main |-> <<Opcode("StackAlloc", WordBytes, 0), Opcode("Call", "helper", 1)>>
              \o [k \in 1..Len(realloc) |-> Opcode("StackAlloc", realloc[k], 0)]
              \o <<Opcode("MakeTempIntWord", 1, 0), Opcode("GetLocalWord", 0, 0),
                   Opcode(deref, offset, 0), Opcode("Ret", 0, 0)>>,
     helper |-> <<Opcode("StackAllocPtr", space, 0), Opcode("SetLocalWord", -1, 0),
                  Opcode("Ret", 0, 0)>>]

InitEscape ==
    /\ MemInit
    /\ walker = [NoWalker EXCEPT !.mode = "off"]
    /\ rq = RqIdle /\ pt = PtIdle
    /\ lexer = NoLexer /\ symtab = NoSymbolTable /\ tw = NoTreeWalker
    /\ \E space \in ProgramSpaces, realloc \in Reallocs, deref \in Derefs,
          offset \in Offsets, order \in Layouts :
          rt = [Runtime_new EXCEPT
                   !.budget = MaxFetch,
                   !.program = Program_new(escape_c(space, realloc, deref, offset), order)]

SpecEscape == InitEscape /\ [][NextProgram]_vars

\* C37: a load or store through a stack-tagged pointer succeeds exactly when
\* the pointer's index names one of the current stack variables and the
\* offset fits the variable now at that index, and fails with an error
\* otherwise; so the pointer to a callee's variable fails after the callee's
\* Ret until the caller allocates a variable, which it then addresses.
C37_StackPointerByIndex ==
    [][(rt.status = "running" /\ rt'.op \in {"Get", "Set"}
                              /\ Len(rt.stack.data) >= WordBytes) =>
          LET opcode == fetched_from(rt.program.ops, 1, MaxFetch)[rt.steps + 1]
              ptr == top_ptr(rt.stack)
              off == ptr.offset + opcode.x
              i == interp_var_idx(ptr)
              fits == /\ i \in 1..Len(rt.stack.vars)
                      /\ off >= 0
                      /\ off + WordBytes <= rt.stack.vars[i].len
              below == slice(rt.stack.data, Len(rt.stack.data) - 2 * WordBytes,
                             Len(rt.stack.data) - WordBytes)
          IN interp_is_stack(ptr) =>
                /\ fits <=> rt'.status = "running"
                /\ ~fits =>
                      /\ rt'.status = "Err"
                      /\ rt'.err \in {"NullPointer", "IncorrectVarOffset",
                                      "OutOfValueBounds"}
                /\ (fits /\ rt'.op = "Set") =>
                      slice(rt'.stack.data, rt.stack.vars[i].idx + off,
                            rt.stack.vars[i].idx + off + WordBytes) = below]_vars

-----------------------------------------------------------------------------
(* SpecScopes: the SymbolTable, src/src/symbol_table.rs.  Scopes are pushed  *)
(* and left as the typechecker does (restore_scope gets what push_scope      *)
(* returned), variables are declared in the current scope and names are      *)
(* looked up.  Scope i of the model is scopes[i - 1]; parent 0 is None.      *)

\* the scopes a table holds at most
MaxScopes == 3

\* the variables declared at most
MaxSymVars == 2

SymNames == {"x", "y"}

Scope(is_function_scope, parent) ==
    [symbols |-> <<>>, is_function_scope |-> is_function_scope, parent |-> parent]

SymbolEntry(is_enclosed_var, index) ==
    [is_enclosed_var |-> is_enclosed_var, index |-> index]

\* a HashMap as the sequence of its (name, entry) pairs, one pair a name
contains_key(symbols, name) == \E k \in 1..Len(symbols) : symbols[k].name = name

symbols_get(symbols, name) ==
    symbols[CHOOSE k \in 1..Len(symbols) : symbols[k].name = name].entry

symbols_insert(symbols, name, entry) ==
    SelectSeq(symbols, LAMBDA pair : pair.name # name)
        \o <<[name |-> name, entry |-> entry]>>

NotFound == [some |-> FALSE, scope |-> 0, entry |-> SymbolEntry(FALSE, 0)]

\* SymbolTable::new
SymbolTable_new ==
    [phase |-> "table", scopes |-> <<Scope(FALSE, 0)>>, var_types |-> 0,
     current_scope |-> 1, found |-> NotFound]

\* SymbolTable::push_scope
push_scope(t, is_function_scope) ==
    [t EXCEPT !.scopes = Append(@, Scope(is_function_scope, t.current_scope)),
              !.current_scope = Len(t.scopes) + 1]

\* SymbolTable::restore_scope
restore_scope(t, previous_scope) == [t EXCEPT !.current_scope = previous_scope]

\* SymbolTable::insert_var (the type is not modelled)
insert_var(t, name) ==
    [t EXCEPT !.var_types = @ + 1,
              !.scopes[t.current_scope].symbols =
                  symbols_insert(@, name, SymbolEntry(FALSE, t.var_types))]

\* the loop of lookup_name_in_scope from scope index on: the table with the
\* entry found marked, and the entry returned
RECURSIVE lookup_loop(_, _, _, _, _)
lookup_loop(t, name, index, is_enclosed_var, func_scope) ==
    IF index = 0 THEN [table |-> t, found |-> NotFound]
    ELSE LET sc == t.scopes[index]
             enclosed == IF sc.is_function_scope /\ func_scope # 0 THEN TRUE
                         ELSE is_enclosed_var
             func == IF sc.is_function_scope /\ func_scope = 0 THEN index
                     ELSE func_scope
         IN IF contains_key(sc.symbols, name)
            THEN LET entry == [symbols_get(sc.symbols, name) EXCEPT
                                   !.is_enclosed_var = enclosed]
                     marked == [k \in 1..Len(sc.symbols) |->
                                   IF sc.symbols[k].name = name
                                   THEN [name |-> name, entry |-> entry]
                                   ELSE sc.symbols[k]]
                 IN [table |-> [t EXCEPT !.scopes[index].symbols = marked],
                     found |-> [some |-> TRUE, scope |-> index, entry |-> entry]]
            ELSE lookup_loop(t, name, sc.parent, enclosed, func)

\* SymbolTable::lookup_name_in_scope
lookup_name_in_scope(t, name, scope) == lookup_loop(t, name, scope, FALSE, 0)

SymUnchanged ==
    UNCHANGED <<stack, heap, historical_data, history, ret, op, nfail, walker, rq, pt,
                rt, lexer, tw>>

PushScope(is_function_scope) ==
    /\ symtab # NoSymbolTable
    /\ Len(symtab.scopes) < MaxScopes
    /\ symtab' = push_scope(symtab, is_function_scope)
    /\ SymUnchanged

\* the typechecker leaves a scope for the one it was pushed in
RestoreScope ==
    /\ symtab # NoSymbolTable
    /\ symtab.scopes[symtab.current_scope].parent # 0
    /\ symtab' = restore_scope(symtab, symtab.scopes[symtab.current_scope].parent)
    /\ SymUnchanged

InsertVar(name) ==
    /\ symtab # NoSymbolTable
    /\ symtab.var_types < MaxSymVars
    /\ symtab' = insert_var(symtab, name)
    /\ SymUnchanged

LookupNameInScope(name, scope) ==
    /\ symtab # NoSymbolTable
    /\ scope \in 1..Len(symtab.scopes)
    /\ LET r == lookup_name_in_scope(symtab, name, scope)
       IN symtab' = [r.table EXCEPT !.found = r.found]
    /\ SymUnchanged

InitScopes ==
    /\ MemInit
    /\ walker = [NoWalker EXCEPT !.mode = "off"]
    /\ rq = RqIdle /\ pt = PtIdle /\ rt = RtIdle
    /\ lexer = NoLexer /\ tw = NoTreeWalker
    /\ symtab = SymbolTable_new

NextScopes ==
    \/ \E is_function_scope \in BOOLEAN : PushScope(is_function_scope)
    \/ RestoreScope
    \/ \E name \in SymNames : InsertVar(name)
    \/ \E name \in SymNames, scope \in 1..MaxScopes : LookupNameInScope(name, scope)

SpecScopes == InitScopes /\ [][NextScopes]_vars

\* the scopes from scope up to the outermost, following the parent links
RECURSIVE enclosing(_, _)
enclosing(scopes, scope) ==
    IF scope = 0 THEN <<>> ELSE <<scope>> \o enclosing(scopes, scopes[scope].parent)

\* the place in the chain of the first scope with the property, 0 without one
first_where(chain, P(_)) ==
    IF \E k \in 1..Len(chain) : P(chain[k])
    THEN CHOOSE k \in 1..Len(chain) : P(chain[k]) /\ \A j \in 1..(k - 1) : ~P(chain[j])
    ELSE 0

\* C38: a lookup returns the entry of the nearest enclosing scope of the
\* lookup scope that declares the name, None if no enclosing scope declares
\* it, and leaves that entry with is_enclosed_var true exactly when the
\* declaring scope lies outside the function containing the lookup scope.
C38_LookupAndEnclosure ==
    [][\A name \in SymNames, scope \in 1..MaxScopes :
          LookupNameInScope(name, scope) =>
              LET chain == enclosing(symtab.scopes, scope)
                  declares(i) == contains_key(symtab.scopes[i].symbols, name)
                  is_function(i) == symtab.scopes[i].is_function_scope
                  declaring == first_where(chain, declares)
                  function == first_where(chain, is_function)
                  found == symtab'.found
              IN /\ found.some <=> declaring # 0
                 /\ found.some =>
                       /\ found.scope = chain[declaring]
                       /\ found.entry.index =
                             symbols_get(symtab.scopes[chain[declaring]].symbols,
                                         name).index
                       /\ found.entry =
                             symbols_get(symtab'.scopes[chain[declaring]].symbols, name)
                       /\ found.entry.is_enclosed_var
                             <=> (function # 0 /\ declaring > function)]_vars

-----------------------------------------------------------------------------
(* SpecTree: the scopes of the TreeWalker, src/src/treewalker.rs.  A program *)
(* is a sequence of statements drawn from bounded expression trees over one  *)
(* function; interpret_program evaluates them in turn on the same walker.    *)
(* An absent optional part is <<>>, a present one <<e>>.  The walker's       *)
(* memory holds no variable in these runs (no tuple or string is built).     *)

\* the statements interpret_program runs at most
MaxProgramStmts == 2

PRINT_INDEX == "print"

ExprPrimary(value) == [k |-> "Primary", value |-> value]

ExprVar(name) == [k |-> "Var", name |-> name]

ExprTupleField(tuple, pos) == [k |-> "TupleField", tuple |-> tuple, pos |-> pos]

ExprIf(cond, then_clause, else_clause) ==
    [k |-> "If", cond |-> cond, then_clause |-> then_clause,
     else_clause |-> else_clause]

ExprBlock(stmts, end_expr) == [k |-> "Block", stmts |-> stmts, end_expr |-> end_expr]

ExprCall(callee, args) == [k |-> "Call", callee |-> callee, args |-> args]

StmtDef(name, rhs) == [k |-> "Def", name |-> name, expr |-> rhs]

StmtExpr(expr) == [k |-> "Expr", expr |-> expr]

StmtReturn(expr) == [k |-> "Return", expr |-> expr]

\* a Scope with no variable
EmptyScope == [name \in {} |-> 0]

\* Vec::pop on the scopes
scopes_pop(scopes) == IF scopes = <<>> THEN scopes ELSE SubSeq(scopes, 1, Len(scopes) - 1)

\* HashMap::insert on the variables of the last scope
insert_last(scopes, name, value) ==
    [scopes EXCEPT ![Len(scopes)] =
        [n \in DOMAIN @ \cup {name} |-> IF n = name THEN value ELSE @[n]]]

\* TreeWalker::lookup_in_scope: <<>> for None
lookup_in_scope(scopes, name) ==
    IF \E i \in 1..Len(scopes) : name \in DOMAIN scopes[i]
    THEN LET i == CHOOSE i \in 1..Len(scopes) :
                     /\ name \in DOMAIN scopes[i]
                     /\ \A j \in (i + 1)..Len(scopes) : name \notin DOMAIN scopes[j]
         IN <<scopes[i][name]>>
    ELSE <<>>

ExprResult(status, val, scopes) == [status |-> status, val |-> val, scopes |-> scopes]

RECURSIVE interpret_expr(_, _, _)
RECURSIVE interpret_stmt(_, _, _)
RECURSIVE interpret_block_stmts(_, _, _, _)
RECURSIVE interpret_print_args(_, _, _, _)
RECURSIVE interpret_call_args(_, _, _, _, _)

\* TreeWalker::interpret_stmt: val is <<>> or the value to return
interpret_stmt(functions, scopes, stmt) ==
    LET r == interpret_expr(functions, scopes, stmt.expr)
    IN IF r.status # "Ok" THEN r
       ELSE IF stmt.k = "Def"
       THEN ExprResult("Ok", <<>>, insert_last(r.scopes, stmt.name, r.val))
       ELSE IF stmt.k = "Return" THEN ExprResult("Ok", <<r.val>>, r.scopes)
       ELSE ExprResult("Ok", <<>>, r.scopes)

\* the loop over the statements of a Block, from statement i on
interpret_block_stmts(functions, scopes, stmts, i) ==
    IF i > Len(stmts) THEN ExprResult("Ok", 0, scopes)
    ELSE LET r == interpret_stmt(functions, scopes, stmts[i])
         IN IF r.status # "Ok" THEN r
            ELSE interpret_block_stmts(functions, r.scopes, stmts, i + 1)

\* the loop over the arguments of a call of print, from argument i on
interpret_print_args(functions, scopes, args, i) ==
    IF i > Len(args) THEN ExprResult("Ok", 0, scopes)
    ELSE LET r == interpret_expr(functions, scopes, args[i])
         IN IF r.status # "Ok" THEN r
            ELSE interpret_print_args(functions, r.scopes, args, i + 1)

\* the loop over the parameters of a called function, from parameter i on
interpret_call_args(functions, scopes, params, args, i) ==
    IF i > Len(params) THEN ExprResult("Ok", 0, scopes)
    ELSE IF i > Len(args) THEN ExprResult("panic", 0, scopes)
    ELSE LET r == interpret_expr(functions, scopes, args[i])
         IN IF r.status # "Ok" THEN r
            ELSE interpret_call_args(functions,
                                     insert_last(r.scopes, params[i], r.val),
                                     params, args, i + 1)

\* TreeWalker::interpret_expr
interpret_expr(functions, scopes, expr) ==
    CASE expr.k = "Primary" -> ExprResult("Ok", expr.value, scopes)
      [] expr.k = "Var" ->
            LET found == lookup_in_scope(scopes, expr.name)
            IN IF found = <<>> THEN ExprResult("panic", 0, scopes)
               ELSE ExprResult("Ok", found[1], scopes)
      [] expr.k = "TupleField" ->
            LET r == interpret_expr(functions, scopes, expr.tuple)
            IN IF r.status # "Ok" THEN r ELSE ExprResult("Err", 0, r.scopes)
      [] expr.k = "If" ->
            LET c == interpret_expr(functions, scopes, expr.cond)
            IN IF c.status # "Ok" THEN c
               ELSE IF c.val # 0
               THEN interpret_expr(functions, c.scopes, expr.then_clause)
               ELSE IF expr.else_clause # <<>>
               THEN interpret_expr(functions, c.scopes, expr.else_clause[1])
               ELSE ExprResult("Ok", 0, c.scopes)
      [] expr.k = "Block" ->
            LET pushed == Append(scopes, EmptyScope)
                s == interpret_block_stmts(functions, pushed, expr.stmts, 1)
            IN IF s.status # "Ok" THEN s
               ELSE IF expr.end_expr # <<>>
               THEN interpret_expr(functions, s.scopes, expr.end_expr[1])
               ELSE ExprResult("Ok", 0, scopes_pop(s.scopes))
      [] expr.k = "Call" ->
            IF expr.callee = PRINT_INDEX
            THEN interpret_print_args(functions, scopes, expr.args, 1)
            ELSE IF expr.callee \notin DOMAIN functions
            THEN ExprResult("panic", 0, scopes)
            ELSE LET func == functions[expr.callee]
                     pushed == Append(scopes, EmptyScope)
                     a == interpret_call_args(functions, pushed, func.params,
                                              expr.args, 1)
                 IN IF a.status # "Ok" THEN a
                    ELSE LET b == interpret_expr(functions, a.scopes, func.body)
                         IN IF b.status # "Ok" THEN b
                            ELSE ExprResult("Ok", b.val, scopes_pop(b.scopes))

\* TreeWalker::new, with the statements interpret_program still has to run
TreeWalker_new(functions) ==
    [phase |-> "walk", functions |-> functions, scopes |-> <<EmptyScope>>,
     ran |-> 0, status |-> "running",
     last |-> [stmt |-> StmtExpr(ExprPrimary(0)),
               result |-> ExprResult("Ok", 0, <<EmptyScope>>)]]

TreeValues == {0, 1}

TreeAtoms ==
    {ExprPrimary(v) : v \in TreeValues}
        \cup {ExprVar("x"), ExprTupleField(ExprPrimary(0), 0)}

\* the bodies of the function f(x)
TreeBodies ==
    {ExprBlock(<<>>, <<>>), ExprBlock(<<>>, <<ExprVar("x")>>),
     ExprBlock(<<StmtReturn(ExprVar("x"))>>, <<>>)}

TreeBlocks ==
    {ExprBlock(<<>>, end_expr) : end_expr \in {<<>>, <<ExprPrimary(1)>>}}
        \cup {ExprBlock(<<StmtDef("x", ExprPrimary(1))>>, end_expr) :
                 end_expr \in {<<>>, <<ExprVar("x")>>}}
        \cup {ExprBlock(<<StmtExpr(e)>>, <<>>) : e \in TreeAtoms}

TreeCalls ==
    {ExprCall(callee, <<a>>) : callee \in {PRINT_INDEX, "f"}, a \in TreeAtoms}

TreeExprs1 ==
    TreeAtoms \cup TreeBlocks \cup TreeCalls
        \cup {ExprIf(ExprPrimary(c), ExprPrimary(1), <<>>) : c \in TreeValues}

TreeExprs ==
    TreeExprs1
        \cup {ExprIf(ExprPrimary(c), t, <<ExprPrimary(0)>>) :
                 c \in TreeValues, t \in TreeBlocks}
        \cup {ExprBlock(<<StmtExpr(e)>>, <<>>) : e \in TreeBlocks \cup TreeCalls}
        \cup {ExprCall("f", <<e>>) : e \in TreeBlocks}

TreeStmts ==
    {StmtExpr(e) : e \in TreeExprs}
        \cup {StmtDef("x", e) : e \in TreeBlocks}
        \cup {StmtReturn(ExprPrimary(1))}

TreeUnchanged ==
    UNCHANGED <<stack, heap, historical_data, history, ret, op, nfail, walker, rq, pt,
                rt, lexer, symtab>>

\* one turn of the loop of interpret_program
InterpretStmt(stmt) ==
    /\ tw # NoTreeWalker
    /\ tw.status = "running"
    /\ tw.ran < MaxProgramStmts
    /\ LET r == interpret_stmt(tw.functions, tw.scopes, stmt)
       IN tw' = [tw EXCEPT !.scopes = r.scopes,
                           !.ran = @ + 1,
                           !.status = IF r.status # "Ok" THEN r.status
                                      ELSE IF r.val # <<>> THEN "Err"
                                      ELSE "running",
                           !.last = [stmt |-> stmt, result |-> r]]
    /\ TreeUnchanged

\* interpret_program has run every statement
InterpretDone ==
    /\ tw # NoTreeWalker
    /\ tw.status = "running"
    /\ tw' = [tw EXCEPT !.status = "Ok"]
    /\ TreeUnchanged

InitTree ==
    /\ MemInit
    /\ walker = [NoWalker EXCEPT !.mode = "off"]
    /\ rq = RqIdle /\ pt = PtIdle /\ rt = RtIdle
    /\ lexer = NoLexer /\ symtab = NoSymbolTable
    /\ \E body \in TreeBodies :
          tw = TreeWalker_new([name \in {"f"} |-> [params |-> <<"x">>, body |-> body]])

NextTree ==
    \/ \E stmt \in TreeStmts : InterpretStmt(stmt)
    \/ InterpretDone

SpecTree == InitTree /\ [][NextTree]_vars

\* C39: an evaluation by interpret_expr that returns Ok leaves the scope
\* stack as deep as it found it: every scope pushed for a Block, with or
\* without an end expression, or for a function call is popped exactly once.
C39_ScopeBalance ==
    [][(/\ tw # NoTreeWalker
        /\ tw'.ran = tw.ran + 1
        /\ tw'.last.result.status = "Ok")
           => Len(tw'.scopes) = Len(tw.scopes)]_vars

=============================================================================
